---------------------------- MODULE Spec2Model ----------------------------
(***************************************************************************)
(* A model of image_merge (src/main.c): the pane layout, the crop model,   *)
(* the texture cache and the event loop of main().                         *)
(*                                                                         *)
(* The C doubles of crop_t are modelled as exact rationals <<n, d>> in     *)
(* lowest terms with d > 0.                                                *)
(***************************************************************************)
EXTENDS Integers, Sequences, FiniteSets, TLC

(***************************************************************************)
(* Bounds of the model.                                                    *)
(***************************************************************************)
\* the run has 1 .. MaxImages input files
MaxImages == 2
\* overlay edits (arrows, shift-arrows, - and +) made in crop sessions per run
MaxEdits == 1
\* crop commits (Enter) per run
MaxCommits == 1
\* image counts of the layout specification
MaxLayoutImages == 12

(***************************************************************************)
(* Program constants.                                                      *)
(***************************************************************************)
MAX_IMAGE == 1000
LAYOUT_EQUAL_SIZE == 1
LAYOUT_FIRST_IMAGE_DOUBLE_SIZE == 2
\* a null texture_t
NULL == [null |-> TRUE]
NO_BORDER == "NONE"

(***************************************************************************)
(* Rational arithmetic for the doubles of crop_t.                          *)
(***************************************************************************)
Abs(n) == IF n < 0 THEN -n ELSE n

RECURSIVE GCD(_, _)
GCD(a, b) == IF b = 0 THEN a ELSE GCD(b, a % b)

LCM(a, b) == (a \div GCD(a, b)) * b

Norm(n, d) == LET g == GCD(Abs(n), d) IN <<n \div g, d \div g>>

Num(k) == <<k, 1>>

RAdd(a, b) ==
    LET l == LCM(a[2], b[2])
    IN  Norm(a[1] * (l \div a[2]) + b[1] * (l \div b[2]), l)

RSub(a, b) ==
    LET l == LCM(a[2], b[2])
    IN  Norm(a[1] * (l \div a[2]) - b[1] * (l \div b[2]), l)

RMul(a, b) ==
    LET g1 == GCD(Abs(a[1]), b[2])
        g2 == GCD(Abs(b[1]), a[2])
    IN  Norm((a[1] \div g1) * (b[1] \div g2), (a[2] \div g2) * (b[2] \div g1))

RDiv(a, k) == RMul(a, <<1, k>>)

RLt(a, b) ==
    LET l == LCM(a[2], b[2])
    IN  a[1] * (l \div a[2]) < b[1] * (l \div b[2])

RLe(a, b) == ~RLt(b, a)

\* the literals of the crop code
CROP_STEP == <<1, 2>>
HALF_STEP == RDiv(CROP_STEP, 2)
R0 == Num(0)
R6 == Num(6)
R98 == Num(98)
R100 == Num(100)
R99_9999 == <<999999, 10000>>

Crop(x, y, w, h) == [x |-> x, y |-> y, w |-> w, h |-> h]

\* crop_uncropped: zero initialised, then w = h = 100
crop_uncropped == Crop(R0, R0, R100, R100)


(***************************************************************************)
(* The layout: layout_init and layout_get_panes.                           *)
(***************************************************************************)
\* a ceil that rounds an exact quotient up as well
CeilPlusOne(a, b) == (a \div b) + 1

\* ceil((double)a / b) for a >= 0, b > 0
Ceil(a, b) == IF a % b = 0 THEN a \div b ELSE (a \div b) + 1

Rect(x, y, w, h) == [x |-> x, y |-> y, w |-> w, h |-> h]

MinCols(lay) == IF lay = LAYOUT_EQUAL_SIZE THEN 1 ELSE 2

MaxCols(lay) == 10

\* RecommendedCols with 4 images in 4 columns
RecommendedColsWide(lay, n) ==
    IF lay = LAYOUT_EQUAL_SIZE
    THEN (IF n <= 4 THEN n ELSE 3)
    ELSE (IF n = 1 THEN 2 ELSE 3)

\* layout_init: the recommended cols when no -c option is given (cols_arg = 0)
RecommendedCols(lay, n) ==
    IF lay = LAYOUT_EQUAL_SIZE
    THEN (IF n = 1 THEN 1 ELSE IF n = 2 THEN 2 ELSE IF n = 3 THEN 3
          ELSE IF n = 4 THEN 2 ELSE 3)
    ELSE (IF n = 1 THEN 2 ELSE 3)

\* layout_init: FATAL when a supplied cols is out of range
ColsArgOk(lay, cols_arg) ==
    cols_arg > 0 => (cols_arg >= MinCols(lay) /\ cols_arg <= MaxCols(lay))

InitCols(lay, n, cols_arg) ==
    IF cols_arg > 0 THEN cols_arg ELSE RecommendedCols(lay, n)

\* rows with the double pane counted as covering one column, not two
RowsShortBlock(lay, n, c) ==
    IF lay = LAYOUT_EQUAL_SIZE
    THEN Ceil(n, c)
    ELSE LET images_in_first_2_rows == 1 + 2 * (c - 1)
         IN  IF images_in_first_2_rows >= n
             THEN 2
             ELSE 2 + Ceil(n - images_in_first_2_rows, c)

\* "determine rows" of layout_init and layout_get_panes
Rows(lay, n, c) ==
    IF lay = LAYOUT_EQUAL_SIZE
    THEN Ceil(n, c)
    ELSE LET images_in_first_2_rows == 1 + 2 * (c - 2)
         IN  IF images_in_first_2_rows >= n
             THEN 2
             ELSE 2 + Ceil(n - images_in_first_2_rows, c)

\* ScanCells placing the cell of row r and column c at column r and row c
ScanCellsTransposed(r, c, rows, ncols, iw, ih, skip) ==
    LET cells == [k \in 1 .. (rows * ncols) |->
                     <<(k - 1) \div ncols, (k - 1) % ncols>>]
        Stored(rc) ==
            /\ rc[1] > r \/ (rc[1] = r /\ rc[2] >= c)
            /\ ~(skip /\ rc[1] <= 1 /\ rc[2] <= 1)
        kept == SelectSeq(cells, Stored)
    IN  [k \in 1 .. Len(kept) |->
            Rect(iw * kept[k][1], ih * kept[k][2], iw, ih)]

\* the r, c loops of layout_get_panes from cell (r, c) on: the pane_full
\* rectangles in the order they are stored; skip is the (r <= 1 && c <= 1)
\* test of the double size layout
ScanCells(r, c, rows, ncols, iw, ih, skip) ==
    LET cells == [k \in 1 .. (rows * ncols) |->
                     <<(k - 1) \div ncols, (k - 1) % ncols>>]
        Stored(rc) ==
            /\ rc[1] > r \/ (rc[1] = r /\ rc[2] >= c)
            /\ ~(skip /\ rc[1] <= 1 /\ rc[2] <= 1)
        kept == SelectSeq(cells, Stored)
    IN  [k \in 1 .. Len(kept) |->
            Rect(iw * kept[k][2], ih * kept[k][1], iw, ih)]

\* LayoutGetPanes whose scan does not skip the cells under the double pane
LayoutGetPanesNoSkip(lay, n, ww, wh, c) ==
    LET rows == Rows(lay, n, c)
        image_width == ww \div c
        image_height == wh \div rows
        panes ==
            IF lay = LAYOUT_EQUAL_SIZE
            THEN ScanCells(0, 0, rows, c, image_width, image_height, FALSE)
            ELSE <<Rect(0, 0, 2 * image_width, 2 * image_height)>>
                     \o ScanCells(0, 0, rows, c, image_width, image_height, FALSE)
    IN  [pane_full |-> panes,
         max_pane |-> Len(panes),
         rows |-> rows,
         image_width |-> image_width,
         image_height |-> image_height,
         win_width_used |-> image_width * c,
         win_height_used |-> image_height * rows]

\* LayoutGetPanes leaving a margin of one pixel in the window
LayoutGetPanesMargin(lay, n, ww, wh, c) ==
    LET rows == Rows(lay, n, c)
        image_width == (ww - 1) \div c
        image_height == (wh - 1) \div rows
        panes ==
            IF lay = LAYOUT_EQUAL_SIZE
            THEN ScanCells(0, 0, rows, c, image_width, image_height, FALSE)
            ELSE <<Rect(0, 0, 2 * image_width, 2 * image_height)>>
                     \o ScanCells(0, 0, rows, c, image_width, image_height, TRUE)
    IN  [pane_full |-> panes,
         max_pane |-> Len(panes),
         rows |-> rows,
         image_width |-> image_width,
         image_height |-> image_height,
         win_width_used |-> image_width * c,
         win_height_used |-> image_height * rows]

\* LayoutGetPanes with the cell size rounded up
LayoutGetPanesRoundUp(lay, n, ww, wh, c) ==
    LET rows == Rows(lay, n, c)
        image_width == (ww + c - 1) \div c
        image_height == (wh + rows - 1) \div rows
        panes ==
            IF lay = LAYOUT_EQUAL_SIZE
            THEN ScanCells(0, 0, rows, c, image_width, image_height, FALSE)
            ELSE <<Rect(0, 0, 2 * image_width, 2 * image_height)>>
                     \o ScanCells(0, 0, rows, c, image_width, image_height, TRUE)
    IN  [pane_full |-> panes,
         max_pane |-> Len(panes),
         rows |-> rows,
         image_width |-> image_width,
         image_height |-> image_height,
         win_width_used |-> image_width * c,
         win_height_used |-> image_height * rows]

\* layout_get_panes: the outer pane rectangles, max_pane and the used size
LayoutGetPanes(lay, n, ww, wh, c) ==
    LET rows == Rows(lay, n, c)
        image_width == ww \div c
        image_height == wh \div rows
        panes ==
            IF lay = LAYOUT_EQUAL_SIZE
            THEN ScanCells(0, 0, rows, c, image_width, image_height, FALSE)
            ELSE <<Rect(0, 0, 2 * image_width, 2 * image_height)>>
                     \o ScanCells(0, 0, rows, c, image_width, image_height, TRUE)
    IN  [pane_full |-> panes,
         max_pane |-> Len(panes),
         rows |-> rows,
         image_width |-> image_width,
         image_height |-> image_height,
         win_width_used |-> image_width * c,
         win_height_used |-> image_height * rows]

\* sdl_init_pane: the inner rectangle of a pane, inside its border
PANE_BORDER_WIDTH == 2

InnerPane(r) ==
    Rect(r.x + PANE_BORDER_WIDTH, r.y + PANE_BORDER_WIDTH,
         r.w - 2 * PANE_BORDER_WIDTH, r.h - 2 * PANE_BORDER_WIDTH)


(***************************************************************************)
(* The state of main().                                                    *)
(***************************************************************************)
VARIABLES
    layout,                 \* -l option
    max_image,              \* argc - optind
    border_color,           \* -b option
    border_color_str,       \* the colour name printed with the output file
    batch_mode,             \* -z option
    cols,                   \* cols of main
    image,                  \* image[i]: width, height, crop
    sdl_win,                \* the window size held by util_sdl
    win,                    \* win_width, win_height of main
    panes,                  \* result of the last layout_get_panes
    cached_texture,         \* cached_texture[i]: NULL or what it was rendered from
    crop_enabled,
    crop_idx,
    crop,                   \* the crop overlay
    print_screen_request,
    done,
    pc,                     \* position in the runtime loop
    edits,                  \* overlay edits counted in this run
    ncommit,                \* commits counted in this run
    ndraw                   \* draw_images() calls since the last handled event

vars == <<layout, max_image, border_color, border_color_str, batch_mode, cols,
          image, sdl_win, win, panes, cached_texture, crop_enabled, crop_idx,
          crop, print_screen_request, done, pc, edits, ncommit, ndraw>>

config == <<layout, max_image, border_color, border_color_str, batch_mode>>

Slots == 0 .. (max_image - 1)

(***************************************************************************)
(* Inputs of the model.                                                    *)
(***************************************************************************)
\* window sizes a resize can produce
WinSizes == {<<803, 601>>}

\* -c options tried (0: no -c option)
ColsArgs == {0, 10}

\* size of a decoded image file; a file that failed to load keeps width 0
IMAGE_WIDTH == 64
IMAGE_HEIGHT == 48

DEFAULT_IMAGE_WIDTH == 320
DEFAULT_IMAGE_HEIGHT == 240

\* option -k: the crop passes the validation (FATAL otherwise)
KOptionOk(c) ==
    ~(RLt(c.x, R0) \/ RLt(c.y, R0) \/ RLt(c.w, Num(5)) \/ RLt(c.h, Num(5))
      \/ RLt(R100, RAdd(c.x, c.w)) \/ RLt(R100, RAdd(c.y, c.h)))

\* layout_init: the window size; win_arg is the -o WxH option, <<0, 0>> when
\* neither -o nor -i is given
InitWin(lay, n, c, win_arg) ==
    IF win_arg[1] = 0 /\ win_arg[2] = 0
    THEN <<DEFAULT_IMAGE_WIDTH * c, DEFAULT_IMAGE_HEIGHT * Rows(lay, n, c)>>
    ELSE win_arg

\* pane, pane_full and max_pane before the first layout_get_panes
NoPanes ==
    [pane_full |-> <<>>, max_pane |-> 0, rows |-> 0,
     image_width |-> 0, image_height |-> 0,
     win_width_used |-> 0, win_height_used |-> 0]

\* case 'b': border_color_str after the option -b bc (GREEN: the default).
\* NONE leaves the switch before border_color_str is assigned.
BorderColorStr(bc) == IF bc = NO_BORDER THEN "GREEN" ELSE bc

InitWith(lay, n, cols_arg, win_arg, bc, bm, imgs) ==
    /\ layout = lay
    /\ max_image = n
    /\ border_color = bc
    /\ border_color_str = BorderColorStr(bc)
    /\ batch_mode = bm
    /\ cols = InitCols(lay, n, cols_arg)
    /\ image = imgs
    /\ sdl_win = InitWin(lay, n, InitCols(lay, n, cols_arg), win_arg)
    /\ win = InitWin(lay, n, InitCols(lay, n, cols_arg), win_arg)
    /\ panes = NoPanes
    /\ cached_texture = [i \in 0 .. (n - 1) |-> NULL]
    /\ crop_enabled = FALSE
    /\ crop_idx = 0
    /\ crop = Crop(R0, R0, R0, R0)
    /\ print_screen_request = FALSE
    /\ done = FALSE
    /\ pc = "top"
    /\ edits = 0
    /\ ncommit = 0
    /\ ndraw = 0

\* the command lines tried: -b, whether the last file fails to load, and the
\* -k option for the first file (crop_uncropped: none)
Runs ==
    {[b |-> "GREEN", fail |-> FALSE, k |-> crop_uncropped],
     [b |-> NO_BORDER, fail |-> FALSE, k |-> Crop(Num(10), Num(20), Num(5), Num(60))],
     [b |-> "GREEN", fail |-> TRUE, k |-> Crop(Num(10), Num(20), Num(5), Num(60))],
     [b |-> "GREEN", fail |-> FALSE, k |-> Crop(Num(10), Num(20), Num(95), Num(60))],
     [b |-> "GREEN", fail |-> FALSE, k |-> Crop(R0, R0, Num(4), Num(50))]}

\* image[] after the options and the file reads
LoadedImages(n, run) ==
    [i \in 0 .. (n - 1) |->
        [width |-> IF run.fail /\ i = n - 1 THEN 0 ELSE IMAGE_WIDTH,
         height |-> IF run.fail /\ i = n - 1 THEN 0 ELSE IMAGE_HEIGHT,
         crop |-> IF i = 0 THEN run.k ELSE crop_uncropped]]

\* the state after option parsing, layout_init and the file reads
Init ==
    \E lay \in {LAYOUT_EQUAL_SIZE, LAYOUT_FIRST_IMAGE_DOUBLE_SIZE},
       n \in 1 .. MaxImages,
       cols_arg \in ColsArgs,
       bm \in BOOLEAN,
       run \in Runs :
        /\ ColsArgOk(lay, cols_arg)
        /\ KOptionOk(run.k)
        /\ InitWith(lay, n, cols_arg, <<0, 0>>, run.b, bm, LoadedImages(n, run))

(***************************************************************************)
(* The runtime loop up to the event wait.                                  *)
(***************************************************************************)
\* "sanitize crop", one axis: the origin and the size after the three ifs
\* SanitizeOrigin without the upper clamp at 98
SanitizeOriginNoUpper(x) == IF RLt(x, R0) THEN R0 ELSE x

SanitizeOrigin(x) ==
    LET x1 == IF RLt(x, R0) THEN R0 ELSE x
    IN  IF RLt(R98, x1) THEN R98 ELSE x1

\* SanitizeSize cutting at 100
SanitizeSizeAt100(x, w) ==
    IF RLe(R100, RAdd(SanitizeOrigin(x), w))
    THEN RSub(R100, SanitizeOrigin(x))
    ELSE w

SanitizeSize(x, w) ==
    IF RLe(R99_9999, RAdd(SanitizeOrigin(x), w))
    THEN RSub(R99_9999, SanitizeOrigin(x))
    ELSE w

Sanitize(c) ==
    Crop(SanitizeOrigin(c.x), SanitizeOrigin(c.y),
         SanitizeSize(c.x, c.w), SanitizeSize(c.y, c.h))

\* draw_images: texture_dest_pane of pane i of the layout p
TextureDestPane(p, i) ==
    IF border_color = NO_BORDER
    THEN p.pane_full[i + 1]
    ELSE InnerPane(p.pane_full[i + 1])

\* nearbyint in the default rounding mode: to nearest, ties to even
NearbyInt(r) ==
    LET q == r[1] \div r[2]
        m == r[1] % r[2]
    IN  IF 2 * m < r[2] THEN q
        ELSE IF 2 * m > r[2] THEN q + 1
        ELSE IF q % 2 = 0 THEN q ELSE q + 1

\* draw_images: the arguments of sdl_create_texture for an image of size
\* width x height cropped to c
TextureSize(width, height, c) ==
    <<NearbyInt(RDiv(RMul(Num(width), c.w), 100)),
      NearbyInt(RDiv(RMul(Num(height), c.h), 100))>>

\* draw_images: column and row of the first pixel sdl_update_texture reads
TextureOrigin(width, height, c) ==
    <<NearbyInt(RDiv(RMul(Num(width), c.x), 100)),
      NearbyInt(RDiv(RMul(Num(height), c.y), 100))>>

\* draw_images: what a new texture of slot i is rendered from
RenderedTexture(p, i) ==
    [dest |-> TextureDestPane(p, i), crop |-> image[i].crop]

\* draw_images: the panes of p an image is rendered in; image[i] of an i
\* from max_image on is zero, so its width is 0
ImagesDrawn(p) ==
    {i \in 0 .. (p.max_pane - 1) : i \in Slots /\ image[i].width # 0}

\* BordersDrawn without the i < max_image test
BordersDrawnAll(p) ==
    {i \in 0 .. (p.max_pane - 1) : border_color # NO_BORDER}

\* draw_images: the panes of p whose border is rendered
BordersDrawn(p) ==
    {i \in 0 .. (p.max_pane - 1) : i < max_image /\ border_color # NO_BORDER}

\* draw_images: the panes of p on which the crop rectangle is drawn
CropRectDrawn(p) ==
    {i \in 0 .. (p.max_pane - 1) : crop_enabled /\ i = crop_idx}

\* DrawnCache without the image[i].width test
DrawnCacheAnyWidth(p) ==
    [i \in Slots |->
        IF i < p.max_pane /\ cached_texture[i] = NULL
        THEN RenderedTexture(p, i)
        ELSE cached_texture[i]]

\* draw_images: the cache after the pass over the panes p
DrawnCache(p) ==
    [i \in Slots |->
        IF i < p.max_pane /\ image[i].width # 0 /\ cached_texture[i] = NULL
        THEN RenderedTexture(p, i)
        ELSE cached_texture[i]]

\* top of the loop to the event wait: sdl_get_state, sanitize crop,
\* layout_get_panes, the max_pane sanity check and the first draw_images()
\* pane[] and pane_full[] hold MAX_IMAGE entries: a layout of more panes is
\* written past their end, which is undefined behaviour, and the run is not
\* followed any further (pc = "undefined")
LoopTop ==
    /\ pc = "top"
    /\ win' = sdl_win
    /\ crop' = Sanitize(crop)
    /\ panes' = LayoutGetPanes(layout, max_image, sdl_win[1], sdl_win[2], cols)
    /\ cached_texture' = DrawnCache(panes')
    /\ pc' = IF panes'.max_pane > MAX_IMAGE THEN "undefined"
             ELSE IF panes'.max_pane < max_image THEN "fatal"
             ELSE IF print_screen_request \/ batch_mode THEN "draw2"
             ELSE "poll"
    /\ ndraw' = ndraw + 1
    /\ UNCHANGED <<config, cols, image, sdl_win, crop_enabled, crop_idx,
                   print_screen_request, done, edits, ncommit>>

\* the second draw_images(), made when the output file is to be written
DrawImagesAgain ==
    /\ pc = "draw2"
    /\ cached_texture' = DrawnCache(panes)
    /\ pc' = "capture"
    /\ ndraw' = ndraw + 1
    /\ UNCHANGED <<config, cols, image, sdl_win, win, panes, crop_enabled,
                   crop_idx, crop, print_screen_request, done, edits, ncommit>>

\* rect_t rect = {0, 0, win_width_used, win_height_used}: the rectangle
\* sdl_print_screen writes to the output file
PrintScreenRect(p) == Rect(0, 0, p.win_width_used, p.win_height_used)

\* Capture going on to the event wait, without the continue
CaptureNoRedraw ==
    /\ pc = "capture"
    /\ print_screen_request' = IF batch_mode THEN print_screen_request ELSE FALSE
    /\ pc' = IF batch_mode THEN "exit0" ELSE "poll"
    /\ UNCHANGED <<config, cols, image, sdl_win, win, panes, cached_texture,
                   crop_enabled, crop_idx, crop, done, edits,
                   ncommit, ndraw>>

\* Capture leaving print_screen_request set
CaptureKeepsFlag ==
    /\ pc = "capture"
    /\ pc' = IF batch_mode THEN "exit0" ELSE "top"
    /\ UNCHANGED <<config, cols, image, sdl_win, win, panes, cached_texture,
                   crop_enabled, crop_idx, crop, print_screen_request, done,
                   edits, ncommit, ndraw>>

\* Capture without the exit(0) of batch mode
CaptureNoExit ==
    /\ pc = "capture"
    /\ print_screen_request' = FALSE
    /\ pc' = "top"
    /\ UNCHANGED <<config, cols, image, sdl_win, win, panes, cached_texture,
                   crop_enabled, crop_idx, crop, done, edits,
                   ncommit, ndraw>>

\* the output file is written: exit(0) in batch mode, else continue
Capture ==
    /\ pc = "capture"
    /\ print_screen_request' = IF batch_mode THEN print_screen_request ELSE FALSE
    /\ pc' = IF batch_mode THEN "exit0" ELSE "top"
    /\ UNCHANGED <<config, cols, image, sdl_win, win, panes, cached_texture,
                   crop_enabled, crop_idx, crop, done, edits,
                   ncommit, ndraw>>


(***************************************************************************)
(* The crop model: what each crop event does to the overlay and to a       *)
(* persisted crop.                                                         *)
(***************************************************************************)
\* SDL_EVENT_KEY_TAB / SHIFT_TAB: the overlay is reset
BeginOverlay ==
    LET w == Num(50)
        h == Num(50)
    IN  Crop(RSub(Num(50), RDiv(w, 2)), RSub(Num(50), RDiv(h, 2)), w, h)

\* NextCropIdx advancing also when crop editing is entered
NextCropIdxAlways(e) ==
    IF e = "TAB"
    THEN (IF crop_idx = max_image - 1 THEN 0 ELSE crop_idx + 1)
    ELSE (IF crop_idx = 0 THEN max_image - 1 ELSE crop_idx - 1)

\* NextCropIdx without the wrap at the ends
NextCropIdxNoWrap(e) ==
    IF ~crop_enabled THEN crop_idx
    ELSE IF e = "TAB" THEN crop_idx + 1 ELSE crop_idx - 1

\* NextCropIdx going forward for Shift-Tab too
NextCropIdxForward(e) ==
    IF ~crop_enabled THEN crop_idx
    ELSE (IF crop_idx = max_image - 1 THEN 0 ELSE crop_idx + 1)

\* the crop_idx assignments of the Tab / Shift-Tab case
NextCropIdx(e) ==
    IF ~crop_enabled THEN crop_idx
    ELSE IF e = "TAB"
         THEN (IF crop_idx = max_image - 1 THEN 0 ELSE crop_idx + 1)
         ELSE (IF crop_idx = 0 THEN max_image - 1 ELSE crop_idx - 1)

MoveUp(c) ==
    IF RLt(R0, c.y) THEN [c EXCEPT !.y = RSub(c.y, CROP_STEP)] ELSE c

MoveDown(c) ==
    IF RLt(RAdd(c.y, c.h), R100) THEN [c EXCEPT !.y = RAdd(c.y, CROP_STEP)] ELSE c

\* MoveLeft by half a step
MoveLeftHalfStep(c) ==
    IF RLt(R0, c.x) THEN [c EXCEPT !.x = RSub(c.x, HALF_STEP)] ELSE c

MoveLeft(c) ==
    IF RLt(R0, c.x) THEN [c EXCEPT !.x = RSub(c.x, CROP_STEP)] ELSE c

MoveRight(c) ==
    IF RLt(RAdd(c.x, c.w), R100) THEN [c EXCEPT !.x = RAdd(c.x, CROP_STEP)] ELSE c

ShrinkHeight(c) ==
    IF RLt(R6, c.h)
    THEN [c EXCEPT !.h = RSub(c.h, CROP_STEP), !.y = RAdd(c.y, HALF_STEP)]
    ELSE c

GrowHeight(c) ==
    IF RLt(RAdd(c.y, c.h), R100) /\ RLt(R0, c.y)
    THEN [c EXCEPT !.h = RAdd(c.h, CROP_STEP), !.y = RSub(c.y, HALF_STEP)]
    ELSE c

ShrinkWidth(c) ==
    IF RLt(R6, c.w)
    THEN [c EXCEPT !.w = RSub(c.w, CROP_STEP), !.x = RAdd(c.x, HALF_STEP)]
    ELSE c

GrowWidth(c) ==
    IF RLt(RAdd(c.x, c.w), R100) /\ RLt(R0, c.x)
    THEN [c EXCEPT !.w = RAdd(c.w, CROP_STEP), !.x = RSub(c.x, HALF_STEP)]
    ELSE c

ShrinkBoth(c) ==
    IF RLt(R6, c.w) /\ RLt(R6, c.h)
    THEN Crop(RAdd(c.x, HALF_STEP), RAdd(c.y, HALF_STEP),
              RSub(c.w, CROP_STEP), RSub(c.h, CROP_STEP))
    ELSE c

GrowBoth(c) ==
    IF (RLt(RAdd(c.y, c.h), R100) /\ RLt(R0, c.y))
       /\ (RLt(RAdd(c.x, c.w), R100) /\ RLt(R0, c.x))
    THEN Crop(RSub(c.x, HALF_STEP), RSub(c.y, HALF_STEP),
              RAdd(c.w, CROP_STEP), RAdd(c.h, CROP_STEP))
    ELSE c

\* CommitCrop without the offset of the crop already persisted
CommitCropNoOffset(old, ov) ==
    Crop(RDiv(RMul(ov.x, old.w), 100),
         RDiv(RMul(ov.y, old.h), 100),
         RDiv(RMul(ov.w, old.w), 100),
         RDiv(RMul(ov.h, old.h), 100))

\* CommitCrop taking the overlay's w and h as they are
CommitCropUnscaled(old, ov) ==
    Crop(RAdd(old.x, RDiv(RMul(ov.x, old.w), 100)),
         RAdd(old.y, RDiv(RMul(ov.y, old.h), 100)),
         ov.w,
         ov.h)

\* SDL_EVENT_KEY_ENTER: the overlay ov composed into the persisted crop old
CommitCrop(old, ov) ==
    Crop(RAdd(old.x, RDiv(RMul(ov.x, old.w), 100)),
         RAdd(old.y, RDiv(RMul(ov.y, old.h), 100)),
         RDiv(RMul(ov.w, old.w), 100),
         RDiv(RMul(ov.h, old.h), 100))

\* memcmp(&image[i].crop, &crop_uncropped, sizeof(crop_t)) != 0
IsCropped(i) == image[i].crop # crop_uncropped

\* the loops over cached_texture of 'c' / 'C' and of the window events
InvalidateAll == [i \in Slots |-> NULL]

\* sdl_destroy_texture(cached_texture[k]); cached_texture[k] = NULL
InvalidateOne(k) == [cached_texture EXCEPT ![k] = NULL]


(***************************************************************************)
(* The event handlers of the "process events" loop.  Every handler but the *)
(* default case leaves the event wait (unsupported_event stays false), and *)
(* the loop ends when done is set.                                         *)
(***************************************************************************)
\* EvQuit without the done check after the event wait
EvQuitNoExit(e) ==
    /\ pc = "poll"
    /\ done' = TRUE
    /\ pc' = "top"
    /\ ndraw' = 0
    /\ UNCHANGED <<config, cols, image, sdl_win, win, panes, cached_texture,
                   crop_enabled, crop_idx, crop, print_screen_request, edits,
                   ncommit>>

\* case SDL_EVENT_QUIT: case 'q'
EvQuit(e) ==
    /\ pc = "poll"
    /\ done' = TRUE
    /\ pc' = "exited"
    /\ ndraw' = 0
    /\ UNCHANGED <<config, cols, image, sdl_win, win, panes, cached_texture,
                   crop_enabled, crop_idx, crop, print_screen_request, edits,
                   ncommit>>

\* EvWrite leaving crop_enabled as it is
EvWriteKeepsMode ==
    /\ pc = "poll"
    /\ print_screen_request' = TRUE
    /\ pc' = "top"
    /\ ndraw' = 0
    /\ UNCHANGED <<config, cols, image, sdl_win, win, panes, cached_texture,
                   crop_enabled, crop_idx, crop, done, edits, ncommit>>

\* case 'w'
EvWrite ==
    /\ pc = "poll"
    /\ print_screen_request' = TRUE
    /\ crop_enabled' = FALSE
    /\ pc' = "top"
    /\ ndraw' = 0
    /\ UNCHANGED <<config, cols, image, sdl_win, win, panes, cached_texture,
                   crop_idx, crop, done, edits, ncommit>>

\* ColsAtBound without the max_cols test
ColsAtBoundLower(e) == cols = MinCols(layout) /\ e = "c"

\* case 'c': case 'C': whether cols is at the bound the key moves towards
ColsAtBound(e) ==
    (cols = MinCols(layout) /\ e = "c") \/ (cols = MaxCols(layout) /\ e = "C")

ColsAfter(e) ==
    IF ColsAtBound(e) THEN cols ELSE cols + (IF e = "c" THEN -1 ELSE 1)

\* CacheAfterCols with the invalidation left out
CacheAfterColsKept(e) == cached_texture

\* CacheAfterCols with the invalidation moved out of the bound test
CacheAfterColsAlways(e) == InvalidateAll

CacheAfterCols(e) ==
    IF ColsAtBound(e) THEN cached_texture ELSE InvalidateAll

EvCols(e) ==
    /\ pc = "poll"
    /\ cols' = ColsAfter(e)
    /\ cached_texture' = CacheAfterCols(e)
    /\ pc' = "top"
    /\ ndraw' = 0
    /\ UNCHANGED <<config, image, sdl_win, win, panes, crop_enabled, crop_idx,
                   crop, print_screen_request, done, edits, ncommit>>

\* case SDL_EVENT_KEY_TAB: case SDL_EVENT_KEY_SHIFT_TAB
EvTab(e) ==
    /\ pc = "poll"
    /\ crop_idx' = NextCropIdx(e)
    /\ crop' = BeginOverlay
    /\ crop_enabled' = TRUE
    /\ pc' = "top"
    /\ ndraw' = 0
    /\ UNCHANGED <<config, cols, image, sdl_win, win, panes, cached_texture,
                   print_screen_request, done, edits, ncommit>>

\* OverlayEdit without the crop_enabled test
OverlayEditAlways(e, limit, c2) ==
    /\ pc = "poll"
    /\ (crop_enabled /\ limit > 0) => edits < limit
    /\ crop' = c2
    /\ edits' = IF crop_enabled /\ limit > 0 THEN edits + 1 ELSE edits
    /\ pc' = "top"
    /\ ndraw' = 0
    /\ UNCHANGED <<config, cols, image, sdl_win, win, panes, cached_texture,
                   crop_enabled, crop_idx, print_screen_request, done, ncommit>>

\* an arrow, shift-arrow, '-' or '+' case: nothing unless crop_enabled, else
\* the overlay becomes c2.  limit > 0 bounds the edits counted in a run.
OverlayEdit(e, limit, c2) ==
    /\ pc = "poll"
    /\ (crop_enabled /\ limit > 0) => edits < limit
    /\ crop' = IF crop_enabled THEN c2 ELSE crop
    /\ edits' = IF crop_enabled /\ limit > 0 THEN edits + 1 ELSE edits
    /\ pc' = "top"
    /\ ndraw' = 0
    /\ UNCHANGED <<config, cols, image, sdl_win, win, panes, cached_texture,
                   crop_enabled, crop_idx, print_screen_request, done, ncommit>>

EvUp(limit) == OverlayEdit("UP_ARROW", limit, MoveUp(crop))

EvDown(limit) == OverlayEdit("DOWN_ARROW", limit, MoveDown(crop))

EvLeft(limit) == OverlayEdit("LEFT_ARROW", limit, MoveLeft(crop))

EvRight(limit) == OverlayEdit("RIGHT_ARROW", limit, MoveRight(crop))

EvShiftDown(limit) == OverlayEdit("SHIFT_DOWN_ARROW", limit, ShrinkHeight(crop))

EvShiftUp(limit) == OverlayEdit("SHIFT_UP_ARROW", limit, GrowHeight(crop))

EvShiftLeft(limit) == OverlayEdit("SHIFT_LEFT_ARROW", limit, ShrinkWidth(crop))

EvShiftRight(limit) == OverlayEdit("SHIFT_RIGHT_ARROW", limit, GrowWidth(crop))

EvMinus(limit) == OverlayEdit("-", limit, ShrinkBoth(crop))

EvPlus(e, limit) == OverlayEdit(e, limit, GrowBoth(crop))

\* EvEsc that also resets the crop of the target slot
EvEscResets ==
    /\ pc = "poll"
    /\ crop_enabled' = FALSE
    /\ image' = IF crop_enabled
                THEN [image EXCEPT ![crop_idx].crop = crop_uncropped]
                ELSE image
    /\ cached_texture' = IF crop_enabled THEN InvalidateOne(crop_idx)
                         ELSE cached_texture
    /\ pc' = "top"
    /\ ndraw' = 0
    /\ UNCHANGED <<config, cols, sdl_win, win, panes, crop_idx, crop,
                   print_screen_request, done, edits, ncommit>>

\* case SDL_EVENT_KEY_ESC
EvEsc ==
    /\ pc = "poll"
    /\ crop_enabled' = FALSE
    /\ pc' = "top"
    /\ ndraw' = 0
    /\ UNCHANGED <<config, cols, image, sdl_win, win, panes, cached_texture,
                   crop_idx, crop, print_screen_request, done, edits, ncommit>>

\* case SDL_EVENT_KEY_ENTER: the persisted crops and the cache after it
ImageAfterEnter ==
    IF crop_enabled
    THEN [image EXCEPT ![crop_idx].crop = CommitCrop(image[crop_idx].crop, crop)]
    ELSE image

\* CacheAfterEnter with the invalidation left out
CacheAfterEnterKept == cached_texture

\* CacheAfterEnter invalidating every slot
CacheAfterEnterAll == IF crop_enabled THEN InvalidateAll ELSE cached_texture

CacheAfterEnter ==
    IF crop_enabled THEN InvalidateOne(crop_idx) ELSE cached_texture

EvEnter ==
    /\ pc = "poll"
    /\ crop_enabled => ncommit < MaxCommits
    /\ image' = ImageAfterEnter
    /\ cached_texture' = CacheAfterEnter
    /\ crop_enabled' = FALSE
    /\ ncommit' = IF crop_enabled THEN ncommit + 1 ELSE ncommit
    /\ pc' = "top"
    /\ ndraw' = 0
    /\ UNCHANGED <<config, cols, sdl_win, win, panes, crop_idx, crop,
                   print_screen_request, done, edits>>

\* ResetOneApplies without the memcmp test
ResetOneAlways == crop_enabled

\* case 'r'
ResetOneApplies == crop_enabled /\ IsCropped(crop_idx)

ImageAfterResetOne ==
    IF ResetOneApplies
    THEN [image EXCEPT ![crop_idx].crop = crop_uncropped]
    ELSE image

CacheAfterResetOne ==
    IF ResetOneApplies THEN InvalidateOne(crop_idx) ELSE cached_texture

EvResetOne ==
    /\ pc = "poll"
    /\ image' = ImageAfterResetOne
    /\ cached_texture' = CacheAfterResetOne
    /\ pc' = "top"
    /\ ndraw' = 0
    /\ UNCHANGED <<config, cols, sdl_win, win, panes, crop_enabled, crop_idx,
                   crop, print_screen_request, done, edits, ncommit>>

\* case 'R'
ImageAfterResetAll ==
    [i \in Slots |->
        IF IsCropped(i) THEN [image[i] EXCEPT !.crop = crop_uncropped]
        ELSE image[i]]

\* CacheAfterResetAll invalidating every slot
CacheAfterResetAllEvery == InvalidateAll

CacheAfterResetAll ==
    [i \in Slots |-> IF IsCropped(i) THEN NULL ELSE cached_texture[i]]

EvResetAll ==
    /\ pc = "poll"
    /\ image' = ImageAfterResetAll
    /\ cached_texture' = CacheAfterResetAll
    /\ pc' = "top"
    /\ ndraw' = 0
    /\ UNCHANGED <<config, cols, sdl_win, win, panes, crop_enabled, crop_idx,
                   crop, print_screen_request, done, edits, ncommit>>

\* case SDL_EVENT_SCREENSHOT_TAKEN
EvScreenshotTaken ==
    /\ pc = "poll"
    /\ pc' = "top"
    /\ ndraw' = 0
    /\ UNCHANGED <<config, cols, image, sdl_win, win, panes, cached_texture,
                   crop_enabled, crop_idx, crop, print_screen_request, done,
                   edits, ncommit>>

\* sdl_poll_event: the window size it records with SDL_EVENT_WIN_SIZE_CHANGE
SdlWindowSizes(e) ==
    IF e = "WIN_SIZE_CHANGE" THEN WinSizes ELSE {sdl_win}

\* case SDL_EVENT_WIN_SIZE_CHANGE: case SDL_EVENT_WIN_RESTORED
EvWindow(e) ==
    /\ pc = "poll"
    /\ sdl_win' \in SdlWindowSizes(e)
    /\ cached_texture' = InvalidateAll
    /\ pc' = "top"
    /\ ndraw' = 0
    /\ UNCHANGED <<config, cols, image, win, panes, crop_enabled, crop_idx,
                   crop, print_screen_request, done, edits, ncommit>>

\* default: unsupported_event, the wait goes on after usleep
EvOther ==
    /\ pc = "poll"
    /\ pc' = "poll"
    /\ UNCHANGED <<config, cols, image, sdl_win, win, panes, cached_texture,
                   crop_enabled, crop_idx, crop, print_screen_request, done,
                   edits, ncommit, ndraw>>

(***************************************************************************)
(* The interactive program, every event of the vocabulary.                 *)
(***************************************************************************)
Next ==
    \/ LoopTop
    \/ DrawImagesAgain
    \/ Capture
    \/ \E e \in {"QUIT", "q"} : EvQuit(e)
    \/ EvWrite
    \/ \E e \in {"c", "C"} : EvCols(e)
    \/ \E e \in {"TAB", "SHIFT_TAB"} : EvTab(e)
    \/ EvUp(MaxEdits)
    \/ EvDown(MaxEdits)
    \/ EvLeft(MaxEdits)
    \/ EvRight(MaxEdits)
    \/ EvShiftDown(MaxEdits)
    \/ EvShiftUp(MaxEdits)
    \/ EvShiftLeft(MaxEdits)
    \/ EvShiftRight(MaxEdits)
    \/ EvMinus(MaxEdits)
    \/ \E e \in {"+", "="} : EvPlus(e, MaxEdits)
    \/ EvEsc
    \/ EvEnter
    \/ EvResetOne
    \/ EvResetAll
    \/ EvScreenshotTaken
    \/ \E e \in {"WIN_SIZE_CHANGE", "WIN_RESTORED"} : EvWindow(e)
    \/ EvOther

Spec == Init /\ [][Next]_vars


(***************************************************************************)
(* The layout under every image count and column count: the program        *)
(* started with 1 .. MaxLayoutImages files and any -c and -o option, then  *)
(* column changes and window resizes.                                      *)
(***************************************************************************)
\* -o options tried (<<0, 0>>: none)
LayoutWinArgs == {<<0, 0>>, <<640, 480>>, <<1001, 37>>}

InitLayout ==
    \E lay \in {LAYOUT_EQUAL_SIZE, LAYOUT_FIRST_IMAGE_DOUBLE_SIZE},
       n \in 1 .. MaxLayoutImages,
       cols_arg \in 0 .. 11,
       win_arg \in LayoutWinArgs :
        /\ ColsArgOk(lay, cols_arg)
        /\ InitWith(lay, n, cols_arg, win_arg, "GREEN", FALSE,
                    [i \in 0 .. (n - 1) |->
                        [width |-> IMAGE_WIDTH, height |-> IMAGE_HEIGHT,
                         crop |-> crop_uncropped]])

NextLayout ==
    \/ LoopTop
    \/ \E e \in {"c", "C"} : EvCols(e)
    \/ \E e \in {"WIN_SIZE_CHANGE", "WIN_RESTORED"} : EvWindow(e)

SpecLayout == InitLayout /\ [][NextLayout]_vars

\* the least r with r * c >= n
LeastRows(n, c) == CHOOSE r \in 1 .. n : r * c >= n /\ (r - 1) * c < n

\* C7: in the EqualSize layout, for every image count and every cols in
\* 1 .. 10, layout_get_panes emits exactly cols * ceil(imageCount / cols)
\* panes, and that is at least imageCount.
C7_EqualSizePaneCount ==
    (layout = LAYOUT_EQUAL_SIZE /\ pc = "poll") =>
        /\ cols \in 1 .. 10
        /\ panes.max_pane = cols * LeastRows(max_image, cols)
        /\ Len(panes.pane_full) = panes.max_pane
        /\ panes.max_pane >= max_image

C7_Witness ==
    /\ layout = LAYOUT_EQUAL_SIZE
    /\ pc = "poll"
    /\ max_image = 7
    /\ cols = 3
    /\ panes.max_pane = 9

\* the panes of the last layout that are twice a cell wide and twice a cell high
DoublePanes ==
    {i \in 1 .. panes.max_pane :
        /\ panes.pane_full[i].w = 2 * panes.image_width
        /\ panes.pane_full[i].h = 2 * panes.image_height}

\* C8: in the FirstImageDoubleSize layout, for every image count and every
\* cols in 2 .. 10, layout_get_panes emits at least imageCount panes, so the
\* fatal max_pane < max_image check is never reached, and exactly one pane
\* has double width and double height.
C8_DoubleSizePaneCount ==
    layout = LAYOUT_FIRST_IMAGE_DOUBLE_SIZE =>
        /\ pc # "fatal"
        /\ pc = "poll" =>
            /\ cols \in 2 .. 10
            /\ panes.max_pane >= max_image
            /\ Cardinality(DoublePanes) = 1

C8_Witness ==
    /\ layout = LAYOUT_FIRST_IMAGE_DOUBLE_SIZE
    /\ pc = "poll"
    /\ max_image = 5
    /\ cols = 3
    /\ panes.max_pane = 6
    /\ DoublePanes = {1}

(***************************************************************************)
(* Properties of the persisted crops and of the texture cache, under Spec. *)
(***************************************************************************)
\* the bounds option -k enforces on a crop
CropInBounds(c) ==
    /\ RLe(R0, c.x)
    /\ RLe(R0, c.y)
    /\ RLe(Num(5), c.w)
    /\ RLe(Num(5), c.h)
    /\ RLe(RAdd(c.x, c.w), R100)
    /\ RLe(RAdd(c.y, c.h), R100)

\* the image slots whose file was read
Loaded == {i \in Slots : image[i].width # 0}

\* C1: after any sequence of crop operations every slot's persisted crop has
\* x >= 0, y >= 0, w >= 5, h >= 5, x + w <= 100 and y + h <= 100.
C1_PersistedCropInBounds ==
    \A i \in Slots : CropInBounds(image[i].crop)

\* C2: at every draw pass each cached texture that is kept was rendered with
\* the pane geometry of this pass (the current cols, the window size this
\* pass read) and with the slot's current persisted crop.
C2_CacheCoherent ==
    pc \in {"poll", "draw2", "capture"} =>
        /\ win = sdl_win
        /\ panes = LayoutGetPanes(layout, max_image, win[1], win[2], cols)
        /\ \A i \in Slots :
               cached_texture[i] # NULL =>
                   cached_texture[i] = RenderedTexture(panes, i)

C2_Witness ==
    /\ pc = "poll"
    /\ ncommit = 1
    /\ max_image = 2
    /\ IsCropped(0)
    /\ cached_texture[0] # NULL
    /\ cached_texture[1] # NULL
    /\ win \in WinSizes
    /\ cols = 3

\* C4 (as stated): a column decrement at min_cols, or increment at max_cols,
\* leaves cols unchanged, invalidates no cache entry, and is not handled: the
\* event wait goes on and no redraw pass is started.
C4_BoundKeyNotHandled ==
    [][\A e \in {"c", "C"} :
           (EvCols(e) /\ ColsAtBound(e)) =>
               /\ cols' = cols
               /\ cached_texture' = cached_texture
               /\ pc' = "poll"]_vars

\* C4 (amended): a column decrement at min_cols, or increment at max_cols,
\* leaves cols unchanged and invalidates no cache entry, but it is a handled
\* event: the event wait ends and one redraw pass follows.
C4_BoundKeyHandledNoChange ==
    [][\A e \in {"c", "C"} :
           (EvCols(e) /\ ColsAtBound(e)) =>
               /\ cols' = cols
               /\ cached_texture' = cached_texture
               /\ image' = image
               /\ pc' = "top"]_vars

\* cols at its lower bound, every image read still cached, and the loop at
\* its top again: a key that was handled without invalidating anything
C4_Witness ==
    /\ pc = "top"
    /\ cols = MinCols(layout)
    /\ panes # NoPanes
    /\ Loaded # {}
    /\ \A i \in Loaded : cached_texture[i] # NULL
    /\ panes = LayoutGetPanes(layout, max_image, sdl_win[1], sdl_win[2], cols)

\* C5: a column change and a window-resize or window-restored event leave
\* every cache entry null, and the next step of the loop is the draw pass.
C5_GeometryChangeInvalidatesAll ==
    [][(cols' # cols \/ (\E e \in {"WIN_SIZE_CHANGE", "WIN_RESTORED"} : EvWindow(e))) =>
           /\ \A i \in Slots : cached_texture'[i] = NULL
           /\ pc' = "top"]_vars

\* a column change not drawn yet: the panes are those of another cols
C5_Witness ==
    /\ pc = "top"
    /\ panes # NoPanes
    /\ win = sdl_win
    /\ panes # LayoutGetPanes(layout, max_image, win[1], win[2], cols)
    /\ Loaded # {}
    /\ \A i \in Slots : cached_texture[i] = NULL

\* C6: a commit on slot k nulls the cache entry of slot k only, and leaves
\* the cache entry and the persisted crop of every other slot unchanged.
C6_CommitTouchesOneSlot ==
    [][(EvEnter /\ crop_enabled) =>
           /\ cached_texture'[crop_idx] = NULL
           /\ \A i \in Slots \ {crop_idx} :
                  /\ cached_texture'[i] = cached_texture[i]
                  /\ image'[i] = image[i]]_vars

\* just after a commit on slot 0 of two: slot 1 is still cached
C6_Witness ==
    /\ pc = "top"
    /\ max_image = 2
    /\ ncommit = 1
    /\ ~crop_enabled
    /\ crop_idx = 0
    /\ image[0].crop = CommitCrop(crop_uncropped, BeginOverlay)
    /\ cached_texture[0] = NULL
    /\ cached_texture[1] # NULL

\* C9: 'r' leaves the selected slot's crop at the default; 'r' on a slot
\* whose crop is the default already changes neither a crop nor a cache
\* entry, and the draw pass between two 'r' changes no crop and no selection.
C9_ResetOneIdempotent ==
    [][/\ EvResetOne =>
              /\ crop_enabled => image'[crop_idx].crop = crop_uncropped
              /\ (crop_enabled /\ ~IsCropped(crop_idx)) =>
                     (image' = image /\ cached_texture' = cached_texture)
       /\ LoopTop => UNCHANGED <<image, crop_enabled, crop_idx>>]_vars

\* a committed crop is gone again, the slot is selected and its texture of
\* the default crop is cached: where a second 'r' finds and leaves the slot
C9_Witness ==
    /\ pc = "top"
    /\ ncommit = 1
    /\ crop_enabled
    /\ Loaded = Slots
    /\ \A i \in Slots : ~IsCropped(i)
    /\ cached_texture[crop_idx] # NULL
    /\ cached_texture[crop_idx].crop = crop_uncropped

(***************************************************************************)
(* The crop overlay along the x axis, any number of edits: one image, Tab, *)
(* the left and right arrows with and without shift, and Esc.              *)
(***************************************************************************)
InitCropX ==
    InitWith(LAYOUT_EQUAL_SIZE, 1, 0, <<0, 0>>, "GREEN", FALSE,
             [i \in {0} |->
                 [width |-> IMAGE_WIDTH, height |-> IMAGE_HEIGHT,
                  crop |-> crop_uncropped]])

NextCropX ==
    \/ LoopTop
    \/ \E e \in {"TAB", "SHIFT_TAB"} : EvTab(e)
    \/ EvLeft(0)
    \/ EvRight(0)
    \/ EvShiftLeft(0)
    \/ EvShiftRight(0)
    \/ EvEsc

SpecCropX == InitCropX /\ [][NextCropX]_vars

\* C3: while crop editing is active the overlay drawn in a frame has x >= 0,
\* y >= 0, w >= 6, h >= 6, x + w <= 100 and y + h <= 100.
C3_OverlayInBounds ==
    (crop_enabled /\ pc = "poll") =>
        /\ RLe(R0, crop.x)
        /\ RLe(R0, crop.y)
        /\ RLe(R6, crop.w)
        /\ RLe(R6, crop.h)
        /\ RLe(RAdd(crop.x, crop.w), R100)
        /\ RLe(RAdd(crop.y, crop.h), R100)

(***************************************************************************)
(* Growing the overlay to the whole image and committing it: one image     *)
(* with or without a crop persisted by option -k, Tab, '+' / '=' and       *)
(* Enter.                                                                  *)
(***************************************************************************)
\* the '+' / '=' events of a run
MaxGrowEdits == 100

InitGrow ==
    \E k \in {crop_uncropped, Crop(Num(10), Num(20), Num(5), Num(60))} :
        /\ KOptionOk(k)
        /\ InitWith(LAYOUT_EQUAL_SIZE, 1, 0, <<0, 0>>, "GREEN", FALSE,
                    [i \in {0} |->
                        [width |-> IMAGE_WIDTH, height |-> IMAGE_HEIGHT,
                         crop |-> k]])

NextGrow ==
    \/ LoopTop
    \/ \E e \in {"TAB", "SHIFT_TAB"} : EvTab(e)
    \/ \E e \in {"+", "="} : EvPlus(e, MaxGrowEdits)
    \/ EvEnter

SpecGrow == InitGrow /\ [][NextGrow]_vars

\* the overlay that covers the whole image
FullOverlay == Crop(R0, R0, R100, R100)

\* w scaled by 99.9999 / 100
ScaledByCap(w) == RDiv(RMul(R99_9999, w), 100)

\* C10 (as stated): committing the full overlay (0, 0, 100, 100), as the
\* frame loop hands it to Enter, leaves the persisted crop numerically
\* unchanged.
C10_FullOverlayCommitIsIdentity ==
    [][(EvEnter /\ crop_enabled /\ crop = Sanitize(FullOverlay)) =>
           image' = image]_vars

\* C10 (amended): the overlay grown to (0, 0, 100, 100) reaches Enter as
\* (0, 0, 99.9999, 99.9999), and committing it leaves x and y of the persisted
\* crop unchanged and scales w and h by 0.999999.
C10_FullOverlayCommitScales ==
    [][(EvEnter /\ crop_enabled /\ crop = Sanitize(FullOverlay)) =>
           /\ crop = Crop(R0, R0, R99_9999, R99_9999)
           /\ image'[crop_idx].crop.x = image[crop_idx].crop.x
           /\ image'[crop_idx].crop.y = image[crop_idx].crop.y
           /\ image'[crop_idx].crop.w = ScaledByCap(image[crop_idx].crop.w)
           /\ image'[crop_idx].crop.h = ScaledByCap(image[crop_idx].crop.h)
           /\ image'[crop_idx].crop.w # image[crop_idx].crop.w]_vars

\* the -k crop (10, 20, 5, 60) just after the full overlay was committed on it
C10_Witness ==
    /\ pc = "top"
    /\ ncommit = 1
    /\ ~crop_enabled
    /\ crop = Crop(R0, R0, R99_9999, R99_9999)
    /\ edits = 100
    /\ image[0].crop =
           Crop(Num(10), Num(20), <<999999, 200000>>, <<2999997, 50000>>)

(***************************************************************************)
(* Properties of the column count and of the crop selection, under Spec.   *)
(***************************************************************************)
\* C11: cols is within [min_cols, max_cols] (1 .. 10 for the equal size
\* layout, 2 .. 10 for the first image double size layout) in every state of
\* the run loop, and it changes only by +1 on a 'C' event or by -1 on a 'c'
\* event.
C11_ColsInRangeUnitSteps ==
    /\ [](/\ cols >= (IF layout = LAYOUT_EQUAL_SIZE THEN 1 ELSE 2)
          /\ cols <= 10)
    /\ [][cols' # cols =>
              \/ EvCols("C") /\ cols' = cols + 1
              \/ EvCols("c") /\ cols' = cols - 1]_vars

\* cols = 6 is neither a recommended value nor a -c value tried: it is
\* reached by column events only
C11_Witness ==
    /\ pc = "top"
    /\ cols = 6
    /\ \A i \in Slots : cached_texture[i] = NULL

\* C12 (as stated): a Tab or Shift-Tab event received while crop editing is
\* not active enters crop editing with slot 0 as the target, also after
\* earlier sessions.
C12_EnterSelectsSlotZero ==
    [][\A e \in {"TAB", "SHIFT_TAB"} :
           (EvTab(e) /\ ~crop_enabled) => (crop_enabled' /\ crop_idx' = 0)]_vars

\* C12 (amended): a Tab or Shift-Tab event received while crop editing is not
\* active enters crop editing with the overlay reset and with the target the
\* slot that was selected when the previous session ended; the target is
\* slot 0 only when no session has moved it (it starts at 0).
C12_EnterKeepsSelection ==
    /\ (crop_idx = 0 /\ ~crop_enabled)
    /\ [][\A e \in {"TAB", "SHIFT_TAB"} :
              (EvTab(e) /\ ~crop_enabled) =>
                  /\ crop_enabled'
                  /\ crop_idx' = crop_idx
                  /\ crop' = BeginOverlay]_vars
    /\ [][crop_idx' # crop_idx =>
              \E e \in {"TAB", "SHIFT_TAB"} : EvTab(e) /\ crop_enabled]_vars

\* a session on slot 1 ended by Enter, its texture was drawn again, and a
\* new session was entered: the target is slot 1
C12_Witness ==
    /\ pc = "top"
    /\ max_image = 2
    /\ ncommit = 1
    /\ IsCropped(1)
    /\ cached_texture[1] # NULL
    /\ crop_enabled
    /\ crop_idx = 1
    /\ crop = BeginOverlay

(***************************************************************************)
(* Properties of the driving loop: draw passes, captures and exits.        *)
(***************************************************************************)
\* C13 (as stated): between two consecutive event waits the draw pass runs
\* exactly once, for every handled event including a write request.
C13_OneDrawPerEvent ==
    pc = "poll" => ndraw = 1

\* C13 (amended): after a handled event other than a write request the draw
\* pass runs exactly once before the next event wait; after a write request
\* it runs three times: twice before the capture and once more after it.
C13_DrawsPerEvent ==
    /\ [](pc = "poll" => ndraw \in {1, 3})
    /\ [][/\ (LoopTop /\ ndraw = 0 /\ ~print_screen_request /\ ~batch_mode) =>
                 (ndraw' = 1 /\ pc' = "poll")
          /\ EvWrite => (print_screen_request' /\ ndraw' = 0 /\ pc' = "top")
          /\ (LoopTop /\ ndraw = 0 /\ print_screen_request) =>
                 (ndraw' = 1 /\ pc' = "draw2")
          /\ (Capture /\ ~batch_mode) =>
                 (ndraw = 2 /\ ndraw' = 2 /\ pc' = "top"
                  /\ ~print_screen_request')
          /\ (LoopTop /\ ndraw = 2) => (ndraw' = 3 /\ pc' = "poll")]_vars

\* the event wait after a write request: three draw passes were made
C13_Witness ==
    /\ pc = "poll"
    /\ ~batch_mode
    /\ ndraw = 3
    /\ ~print_screen_request

(***************************************************************************)
(* The run of the program from any command line of the model, any subset   *)
(* of the files failing to load, under every event but the overlay edits.  *)
(***************************************************************************)
InitRun ==
    \E lay \in {LAYOUT_EQUAL_SIZE, LAYOUT_FIRST_IMAGE_DOUBLE_SIZE},
       n \in 1 .. MaxImages,
       cols_arg \in ColsArgs,
       bm \in BOOLEAN,
       bc \in {"GREEN", NO_BORDER},
       k \in {crop_uncropped, Crop(Num(10), Num(20), Num(5), Num(60))} :
        \E failed \in SUBSET (0 .. (n - 1)) :
            /\ ColsArgOk(lay, cols_arg)
            /\ KOptionOk(k)
            /\ InitWith(lay, n, cols_arg, <<0, 0>>, bc, bm,
                        [i \in 0 .. (n - 1) |->
                            [width |-> IF i \in failed THEN 0 ELSE IMAGE_WIDTH,
                             height |-> IF i \in failed THEN 0 ELSE IMAGE_HEIGHT,
                             crop |-> IF i = 0 THEN k ELSE crop_uncropped]])

NextRun ==
    \/ LoopTop
    \/ DrawImagesAgain
    \/ Capture
    \/ \E e \in {"QUIT", "q"} : EvQuit(e)
    \/ EvWrite
    \/ \E e \in {"c", "C"} : EvCols(e)
    \/ \E e \in {"TAB", "SHIFT_TAB"} : EvTab(e)
    \/ EvEsc
    \/ EvEnter
    \/ EvResetOne
    \/ EvResetAll
    \/ EvScreenshotTaken
    \/ \E e \in {"WIN_SIZE_CHANGE", "WIN_RESTORED"} : EvWindow(e)
    \/ EvOther

SpecRun == InitRun /\ [][NextRun]_vars

(***************************************************************************)
(* The driving loop with its liveness: one or two images, interactive or   *)
(* batch mode, and the events that change the mode of the loop.  Between   *)
(* two event waits the program runs on its own (the steps of the loop body *)
(* are taken), whereas no event has to arrive.                             *)
(***************************************************************************)
InitLoop ==
    \E lay \in {LAYOUT_EQUAL_SIZE, LAYOUT_FIRST_IMAGE_DOUBLE_SIZE},
       n \in 1 .. MaxImages,
       bm \in BOOLEAN :
        InitWith(lay, n, 0, <<0, 0>>, "GREEN", bm,
                 [i \in 0 .. (n - 1) |->
                     [width |-> IMAGE_WIDTH, height |-> IMAGE_HEIGHT,
                      crop |-> crop_uncropped]])

\* the steps the program takes without waiting for an event
LoopBody == LoopTop \/ DrawImagesAgain \/ Capture

NextLoop ==
    \/ LoopTop
    \/ DrawImagesAgain
    \/ Capture
    \/ \E e \in {"QUIT", "q"} : EvQuit(e)
    \/ EvWrite
    \/ \E e \in {"TAB", "SHIFT_TAB"} : EvTab(e)
    \/ EvEsc
    \/ EvEnter
    \/ EvScreenshotTaken
    \/ EvOther

SpecLoop == InitLoop /\ [][NextLoop]_vars /\ WF_vars(LoopBody)

\* C14: a 'w' event arms print_screen_request and ends crop editing; the
\* flag is consumed by the next draw pass, which is followed by a capture,
\* after which the flag is clear and the loop goes on to the event wait; in
\* interactive mode the flag is armed by 'w' only and no capture is made
\* without it, so each 'w' is followed by exactly one capture.
C14_WriteArmsOneCapture ==
    /\ [][/\ EvWrite => (print_screen_request' /\ ~crop_enabled')
          /\ (print_screen_request' /\ ~print_screen_request) => EvWrite
          /\ (Capture /\ ~batch_mode) =>
                 (~print_screen_request' /\ pc' = "top")]_vars
    /\ [](~batch_mode =>
              /\ pc \in {"draw2", "capture"} => print_screen_request
              /\ pc = "poll" => ~print_screen_request)
    /\ (~batch_mode /\ print_screen_request) ~> (pc = "capture")
    /\ (~batch_mode /\ pc = "capture") ~>
           (pc = "poll" /\ ~print_screen_request)

\* just after the capture of a 'w' that ended a crop session on slot 1
C14_Witness ==
    /\ ~batch_mode
    /\ pc = "top"
    /\ ndraw = 2
    /\ ~print_screen_request
    /\ ~crop_enabled
    /\ crop_idx = 1

\* C15: in batch mode the first draw pass is followed by one capture and the
\* process ends right after it: the loop top is never entered again, no
\* event is polled or handled, and nothing happens after the exit.  In
\* interactive mode a capture clears print_screen_request and the loop goes
\* on to the event wait.
C15_BatchCapturesOnceAndExits ==
    /\ [](batch_mode =>
              /\ pc \in {"top", "draw2", "capture", "exit0"}
              /\ pc = "top" => ndraw = 0
              /\ ~done)
    /\ [][/\ pc # "exit0"
          /\ (Capture /\ batch_mode) => pc' = "exit0"
          /\ (Capture /\ ~batch_mode) =>
                 (print_screen_request /\ ~print_screen_request' /\ pc' = "top")]_vars
    /\ batch_mode ~> (pc = "exit0")
    /\ (~batch_mode /\ pc = "capture") ~> (pc = "poll")

\* batch mode after its exit(0)
C15_Witness ==
    /\ batch_mode
    /\ pc = "exit0"
    /\ ndraw = 2
    /\ \A i \in Slots : cached_texture[i] # NULL

\* C16: a Quit or 'q' event can be handled at every event wait, with or
\* without crop editing active, and ends the loop: no draw pass, capture or
\* event handling follows, no persisted crop is changed, and no write request
\* is pending (the write of an earlier 'w' was made before the event wait).
C16_QuitExits ==
    /\ [](/\ pc = "poll" => (ENABLED EvQuit("q") /\ ENABLED EvQuit("QUIT"))
          /\ pc = "poll" => ~print_screen_request
          /\ done <=> pc = "exited")
    /\ [][/\ pc # "exited"
          /\ \A e \in {"QUIT", "q"} :
                 EvQuit(e) =>
                     /\ pc' = "exited"
                     /\ done'
                     /\ image' = image
                     /\ cached_texture' = cached_texture
                     /\ ~print_screen_request']_vars

\* the program has exited from a crop session on slot 1, after a commit
C16_Witness ==
    /\ pc = "exited"
    /\ done
    /\ crop_enabled
    /\ crop_idx = 1
    /\ ncommit = 1
    /\ ~print_screen_request

(***************************************************************************)
(* The command line printed with the output file, and what the option      *)
(* parsing of main() makes of it.                                          *)
(***************************************************************************)
\* the significant digits "%g" prints
G_DIGITS == 6

\* t = 10^k
RECURSIVE Pow10(_)
Pow10(k) == IF k = 0 THEN 1 ELSE 10 * Pow10(k - 1)

\* the decimal expansion of (q + rem / d) carried on until q has G_DIGITS
\* digits: <<q, rem, k>> with k digits after the point
RECURSIVE Expand(_, _, _, _)
Expand(q, rem, d, k) ==
    IF q >= Pow10(G_DIGITS - 1) \/ k >= 8 THEN <<q, rem, k>>
    ELSE Expand(q * 10 + ((rem * 10) \div d), (rem * 10) % d, d, k + 1)

\* sprintf "%g" of a value in 0 .. 100, read back by sscanf "%lf": the value
\* rounded to G_DIGITS significant digits
FormatG(r) ==
    IF r[1] = 0 THEN R0
    ELSE LET e == Expand(r[1] \div r[2], r[1] % r[2], r[2], 0)
             q == IF 2 * e[2] >= r[2] THEN e[1] + 1 ELSE e[1]
         IN  Norm(q, Pow10(e[3]))

\* cmd_str: the options of the command line printed at a capture
CmdStr ==
    [o |-> <<panes.win_width_used, panes.win_height_used>>,
     c |-> cols,
     l |-> layout,
     b |-> border_color_str,
     k |-> [i \in {j \in Slots : IsCropped(j)} |->
               Crop(FormatG(image[i].crop.x), FormatG(image[i].crop.y),
                    FormatG(image[i].crop.w), FormatG(image[i].crop.h))]]

\* case 'b': border_color after the option -b opt
BorderOfOption(opt) == IF opt = "NONE" THEN NO_BORDER ELSE opt

\* C17: at every capture the printed command line is equivalent to the state
\* that produced the frame: -o is the used size, -c, -l, -b and -k are the
\* current cols, the layout, the border choice in effect (NONE included) and
\* every non-default persisted crop, and the option parsing accepts it.
C17_EmittedCommandEquivalent ==
    pc = "capture" =>
        /\ CmdStr.o = <<panes.win_width_used, panes.win_height_used>>
        /\ CmdStr.c = cols
        /\ CmdStr.l = layout
        /\ BorderOfOption(CmdStr.b) = border_color
        /\ \A i \in Slots :
               IsCropped(i) =>
                   (i \in DOMAIN CmdStr.k /\ CmdStr.k[i] = image[i].crop)
        /\ ColsArgOk(CmdStr.l, CmdStr.c)
        /\ \A i \in DOMAIN CmdStr.k : KOptionOk(CmdStr.k[i])

InitOptions ==
    \E lay \in {LAYOUT_EQUAL_SIZE, LAYOUT_FIRST_IMAGE_DOUBLE_SIZE},
       n \in 1 .. MaxLayoutImages,
       cols_arg \in 0 .. 11,
       win_arg \in LayoutWinArgs :
        /\ layout = lay
        /\ max_image = n
        /\ border_color = "GREEN"
        /\ border_color_str = BorderColorStr("GREEN")
        /\ batch_mode = FALSE
        /\ cols = cols_arg
        /\ image = [i \in 0 .. (n - 1) |->
                       [width |-> 0, height |-> 0, crop |-> crop_uncropped]]
        /\ sdl_win = <<0, 0>>
        /\ win = win_arg
        /\ panes = NoPanes
        /\ cached_texture = [i \in 0 .. (n - 1) |-> NULL]
        /\ crop_enabled = FALSE
        /\ crop_idx = 0
        /\ crop = Crop(R0, R0, R0, R0)
        /\ print_screen_request = FALSE
        /\ done = FALSE
        /\ pc = "options"
        /\ edits = 0
        /\ ncommit = 0
        /\ ndraw = 0

\* layout_init, sdl_init and the file reads
LayoutInit ==
    /\ pc = "options"
    /\ IF ColsArgOk(layout, cols)
       THEN /\ cols' = InitCols(layout, max_image, cols)
            /\ win' = InitWin(layout, max_image, cols', win)
            /\ sdl_win' = win'
            /\ image' = [i \in Slots |->
                            [image[i] EXCEPT !.width = IMAGE_WIDTH,
                                             !.height = IMAGE_HEIGHT]]
            /\ pc' = "top"
       ELSE /\ pc' = "fatal"
            /\ UNCHANGED <<cols, win, sdl_win, image>>
    /\ UNCHANGED <<config, panes, cached_texture, crop_enabled, crop_idx, crop,
                   print_screen_request, done, edits, ncommit, ndraw>>

NextInit ==
    \/ LayoutInit
    \/ LoopTop
    \/ \E e \in {"c", "C"} : EvCols(e)

SpecInit == InitOptions /\ [][NextInit]_vars

\* C20: when no -c option is given layout_init recommends cols by layout and
\* image count (equal size: 1 -> 1, 2 -> 2, 3 -> 3, 4 -> 2, otherwise 3;
\* first image double size: 1 -> 2, otherwise 3), the recommendation lies
\* within [min_cols, max_cols], and 4 images in the equal size layout get
\* cols = 2, rows = 2 and 4 panes of equal dimensions.
C20_RecommendedCols ==
    /\ [][(LayoutInit /\ cols = 0) =>
              /\ pc' = "top"
              /\ cols' = IF layout = LAYOUT_EQUAL_SIZE
                         THEN CASE max_image = 1 -> 1
                                [] max_image = 2 -> 2
                                [] max_image = 3 -> 3
                                [] max_image = 4 -> 2
                                [] OTHER -> 3
                         ELSE IF max_image = 1 THEN 2 ELSE 3
              /\ cols' >= (IF layout = LAYOUT_EQUAL_SIZE THEN 1 ELSE 2)
              /\ cols' <= 10
              /\ (layout = LAYOUT_EQUAL_SIZE /\ max_image = 4) => cols' = 2]_vars
    /\ []((layout = LAYOUT_EQUAL_SIZE /\ max_image = 4 /\ cols = 2
           /\ pc = "poll") =>
              /\ panes.rows = 2
              /\ panes.max_pane = 4
              /\ \A i \in 1 .. 4 :
                     /\ panes.pane_full[i].w = panes.pane_full[1].w
                     /\ panes.pane_full[i].h = panes.pane_full[1].h)

\* 4 images, no -c and no -o option, after the first layout: a 2 x 2 grid of
\* 320 x 240 panes
C20_Witness ==
    /\ layout = LAYOUT_EQUAL_SIZE
    /\ max_image = 4
    /\ pc = "poll"
    /\ ndraw = 1
    /\ cols = 2
    /\ win = <<2 * DEFAULT_IMAGE_WIDTH, 2 * DEFAULT_IMAGE_HEIGHT>>
    /\ panes.pane_full =
           <<Rect(0, 0, 320, 240), Rect(320, 0, 320, 240),
             Rect(0, 240, 320, 240), Rect(320, 240, 320, 240)>>

(***************************************************************************)
(* The panes of the first image double size layout, under SpecLayout.      *)
(***************************************************************************)
\* the cells of the rows x cols grid of the last layout outside the 2 x 2
\* block at the top left
CellsKept ==
    {rc \in (0 .. (panes.rows - 1)) \X (0 .. (cols - 1)) :
        ~(rc[1] <= 1 /\ rc[2] <= 1)}

\* how many cells of CellsKept come before rc in row-major order
CellRank(rc) ==
    Cardinality({d \in CellsKept :
                    d[1] < rc[1] \/ (d[1] = rc[1] /\ d[2] < rc[2])})

\* the rectangle of cell rc of the last layout
CellRect(rc) ==
    Rect(panes.image_width * rc[2], panes.image_height * rc[1],
         panes.image_width, panes.image_height)

\* C21: in the first image double size layout slot 0 gets the pane at (0, 0)
\* of 2 * cell width x 2 * cell height, and slot i >= 1 gets the i-th cell
\* of the row-major scan of the rows x cols grid that skips the cells
\* (0,0), (0,1), (1,0), (1,1); 5 images in 3 columns give rows = 3 and 6
\* panes: the double pane, then the cells (0,2), (1,2), (2,0), (2,1), (2,2).
C21_DoubleSizePanePositions ==
    (layout = LAYOUT_FIRST_IMAGE_DOUBLE_SIZE /\ pc = "poll") =>
        /\ panes.pane_full[1] =
               Rect(0, 0, 2 * panes.image_width, 2 * panes.image_height)
        /\ panes.max_pane = 1 + Cardinality(CellsKept)
        /\ \A rc \in CellsKept :
               panes.pane_full[CellRank(rc) + 2] = CellRect(rc)
        /\ (max_image = 5 /\ cols = 3) =>
               /\ panes.rows = 3
               /\ panes.max_pane = 6
               /\ SubSeq(panes.pane_full, 2, 6) =
                      <<CellRect(<<0, 2>>), CellRect(<<1, 2>>),
                        CellRect(<<2, 0>>), CellRect(<<2, 1>>),
                        CellRect(<<2, 2>>)>>

\* 5 images with -c 3 in the default 960 x 720 window
C21_Witness ==
    /\ layout = LAYOUT_FIRST_IMAGE_DOUBLE_SIZE
    /\ pc = "poll"
    /\ max_image = 5
    /\ cols = 3
    /\ panes.pane_full =
           <<Rect(0, 0, 640, 480), Rect(640, 0, 320, 240),
             Rect(640, 240, 320, 240), Rect(0, 480, 320, 240),
             Rect(320, 480, 320, 240), Rect(640, 480, 320, 240)>>

(***************************************************************************)
(* Properties of the crop editing handlers, under Spec.                    *)
(***************************************************************************)
\* the program state apart from the position in the loop
state == <<config, cols, image, sdl_win, win, panes, cached_texture,
           crop_enabled, crop_idx, crop, print_screen_request, done>>

\* C22: Enter in crop editing sets the crop (x, y, w, h) of the target slot
\* to x + ov.x * w / 100, y + ov.y * h / 100, ov.w * w / 100, ov.h * h / 100
\* for the overlay ov, and returns the mode to idle; Enter outside crop
\* editing changes nothing.
C22_EnterCommitsOverlay ==
    [][EvEnter =>
          IF crop_enabled
          THEN LET old == image[crop_idx].crop
                   new == image'[crop_idx].crop
               IN  /\ new.x = RAdd(old.x, RDiv(RMul(crop.x, old.w), 100))
                   /\ new.w = RDiv(RMul(crop.w, old.w), 100)
                   /\ new.y = RAdd(old.y, RDiv(RMul(crop.y, old.h), 100))
                   /\ new.h = RDiv(RMul(crop.h, old.h), 100)
                   /\ ~crop_enabled'
          ELSE UNCHANGED state]_vars

\* the overlay (25, 25, 50, 50) just committed on the -k crop (10, 20, 5, 60)
C22_Witness ==
    /\ pc = "top"
    /\ ncommit = 1
    /\ ~crop_enabled
    /\ crop = Crop(Num(25), Num(25), Num(50), Num(50))
    /\ image[0].crop = Crop(<<45, 4>>, Num(35), <<5, 2>>, Num(30))

\* C23: Esc in crop editing ends the session and leaves every persisted crop
\* and every cache entry unchanged, whatever overlay edits preceded it: no
\* event that changes the overlay during the session touches them either.
C23_EscDiscardsOverlay ==
    [][/\ (EvEsc /\ crop_enabled) =>
              /\ ~crop_enabled'
              /\ image' = image
              /\ cached_texture' = cached_texture
       /\ (pc = "poll" /\ crop_enabled /\ crop' # crop) =>
              /\ image' = image
              /\ cached_texture' = cached_texture]_vars

\* Esc after an overlay edit: the -k crop and its cache entry are as before
C23_Witness ==
    /\ pc = "top"
    /\ ~crop_enabled
    /\ ~print_screen_request
    /\ edits = 1
    /\ ncommit = 0
    /\ crop # Sanitize(BeginOverlay)
    /\ image[0].crop = Crop(Num(10), Num(20), Num(5), Num(60))
    /\ cached_texture[0] # NULL
    /\ cached_texture[0].crop = image[0].crop

\* C24: 'R' in any state leaves the crop of every slot at the default, nulls
\* the cache entry of exactly the slots whose crop was not the default, and
\* changes neither the mode, the target slot nor the overlay.
C24_ResetAll ==
    [][EvResetAll =>
          /\ \A i \in Slots :
                 /\ image'[i].crop = crop_uncropped
                 /\ cached_texture'[i] =
                        IF image[i].crop # crop_uncropped THEN NULL
                        ELSE cached_texture[i]
          /\ UNCHANGED <<crop_enabled, crop_idx, crop>>]_vars

\* 'R' while slot 1 is the target: slot 0, cropped by -k, was reset and its
\* cache entry nulled, and slot 1 kept its entry
C24_Witness ==
    /\ pc = "top"
    /\ max_image = 2
    /\ crop_enabled
    /\ crop_idx = 1
    /\ ncommit = 0
    /\ \A i \in Slots : image[i].crop = crop_uncropped
    /\ cached_texture[0] = NULL
    /\ cached_texture[1] # NULL

(***************************************************************************)
(* The selection of the crop target: up to four images in the equal size   *)
(* layout, Tab and Shift-Tab, one overlay edit in a run, Esc, Enter, 'r'.  *)
(***************************************************************************)
MaxSelectImages == 4

InitSelect ==
    \E n \in 1 .. MaxSelectImages :
        InitWith(LAYOUT_EQUAL_SIZE, n, 0, <<0, 0>>, "GREEN", FALSE,
                 [i \in 0 .. (n - 1) |->
                     [width |-> IMAGE_WIDTH, height |-> IMAGE_HEIGHT,
                      crop |-> crop_uncropped]])

NextSelect ==
    \/ LoopTop
    \/ \E e \in {"TAB", "SHIFT_TAB"} : EvTab(e)
    \/ EvRight(MaxEdits)
    \/ EvEsc
    \/ EvEnter
    \/ EvResetOne

SpecSelect == InitSelect /\ [][NextSelect]_vars

\* C25: in crop editing Tab moves the target to (crop_idx + 1) mod n and
\* Shift-Tab to (crop_idx - 1) mod n, wrapping at both ends, and every Tab or
\* Shift-Tab resets the overlay to (25, 25, 50, 50), which discards the
\* edits not committed.
C25_TabCyclesTarget ==
    [][/\ (EvTab("TAB") /\ crop_enabled) =>
              crop_idx' = (crop_idx + 1) % max_image
       /\ (EvTab("SHIFT_TAB") /\ crop_enabled) =>
              crop_idx' = (crop_idx + max_image - 1) % max_image
       /\ (\E e \in {"TAB", "SHIFT_TAB"} : EvTab(e)) =>
              /\ crop' = Crop(Num(25), Num(25), Num(50), Num(50))
              /\ crop_enabled'
              /\ image' = image]_vars

\* three images, the overlay of slot 0 edited, then Shift-Tab: the target
\* wrapped to slot 2 and the overlay is the reset one
C25_Witness ==
    /\ pc = "top"
    /\ max_image = 3
    /\ crop_enabled
    /\ crop_idx = 2
    /\ edits = 1
    /\ ncommit = 0
    /\ crop = Crop(Num(25), Num(25), Num(50), Num(50))

\* C26: when crop editing is not active the arrows, the shift-arrows, '-',
\* '+' / '=', Enter, Esc and 'r' are no-ops: the overlay, the target slot,
\* the persisted crops, the cache and the mode are unchanged.
C26_IdleEditKeysAreNoOps ==
    [][(/\ ~crop_enabled
        /\ \/ EvUp(MaxEdits) \/ EvDown(MaxEdits)
           \/ EvLeft(MaxEdits) \/ EvRight(MaxEdits)
           \/ EvShiftDown(MaxEdits) \/ EvShiftUp(MaxEdits)
           \/ EvShiftLeft(MaxEdits) \/ EvShiftRight(MaxEdits)
           \/ EvMinus(MaxEdits)
           \/ (\E e \in {"+", "="} : EvPlus(e, MaxEdits))
           \/ EvEnter \/ EvEsc \/ EvResetOne) =>
          /\ UNCHANGED <<crop, crop_idx, image, cached_texture, crop_enabled>>
          /\ UNCHANGED state]_vars

\* such a key before any session: the overlay is still the initial one, the
\* -k crop of slot 0 and both cache entries are as drawn
C26_Witness ==
    /\ pc = "top"
    /\ ndraw = 0
    /\ max_image = 2
    /\ ~crop_enabled
    /\ crop_idx = 0
    /\ crop = Crop(R0, R0, R0, R0)
    /\ image[0].crop = Crop(Num(10), Num(20), Num(5), Num(60))
    /\ \A i \in Slots : cached_texture[i] # NULL
    /\ ~print_screen_request
    /\ ~done

(***************************************************************************)
(* The crop overlay edited along one axis in a session, any number of      *)
(* edits: one image, Tab, the four arrows and the four shift-arrows.  The  *)
(* events of the x axis come while y and h are those of the reset overlay, *)
(* and the events of the y axis while x and w are.                         *)
(***************************************************************************)
\* no event has edited the y axis (the x axis) since the overlay was reset
YAxisUntouched == crop.y = Num(25) /\ crop.h = Num(50)

XAxisUntouched == crop.x = Num(25) /\ crop.w = Num(50)

InitCropAxis == InitCropX

NextCropAxis ==
    \/ LoopTop
    \/ \E e \in {"TAB", "SHIFT_TAB"} : EvTab(e)
    \/ (YAxisUntouched /\ EvLeft(0))
    \/ (YAxisUntouched /\ EvRight(0))
    \/ (YAxisUntouched /\ EvShiftLeft(0))
    \/ (YAxisUntouched /\ EvShiftRight(0))
    \/ (XAxisUntouched /\ EvUp(0))
    \/ (XAxisUntouched /\ EvDown(0))
    \/ (XAxisUntouched /\ EvShiftDown(0))
    \/ (XAxisUntouched /\ EvShiftUp(0))

SpecCropAxis == InitCropAxis /\ [][NextCropAxis]_vars

\* 0 <= x, 0 <= y, x + w <= 100 and y + h <= 100
WithinImage(c) ==
    /\ RLe(R0, c.x)
    /\ RLe(R0, c.y)
    /\ RLe(RAdd(c.x, c.w), R100)
    /\ RLe(RAdd(c.y, c.h), R100)

\* C27: an arrow event in crop editing shifts x or y of the overlay by
\* exactly CROP_STEP in the direction of the key or leaves the overlay
\* unchanged, and the overlay the next draw works with has 0 <= x, 0 <= y,
\* x + w <= 100 and y + h <= 100.
C27_ArrowMovesOneStep ==
    [][/\ (EvLeft(0) /\ crop_enabled) =>
              \/ crop' = [crop EXCEPT !.x = RSub(crop.x, CROP_STEP)]
              \/ crop' = crop
       /\ (EvRight(0) /\ crop_enabled) =>
              \/ crop' = [crop EXCEPT !.x = RAdd(crop.x, CROP_STEP)]
              \/ crop' = crop
       /\ (EvUp(0) /\ crop_enabled) =>
              \/ crop' = [crop EXCEPT !.y = RSub(crop.y, CROP_STEP)]
              \/ crop' = crop
       /\ (EvDown(0) /\ crop_enabled) =>
              \/ crop' = [crop EXCEPT !.y = RAdd(crop.y, CROP_STEP)]
              \/ crop' = crop
       /\ (pc = "top" /\ pc' = "poll" /\ crop_enabled) =>
              WithinImage(crop')]_vars

\* a left arrow at x = 0.25 took the overlay to x = -0.25; the next draw
\* resets x to 0
C27_Witness ==
    /\ pc = "top"
    /\ crop_enabled
    /\ crop = Crop(<<-1, 4>>, Num(25), <<99, 2>>, Num(50))

\* the centre of the rectangle c
Centre(c) == <<RAdd(c.x, RDiv(c.w, 2)), RAdd(c.y, RDiv(c.h, 2))>>

\* C28: a shift-arrow event in crop editing changes w or h of the overlay by
\* CROP_STEP and moves the origin by CROP_STEP / 2 the other way, so that the
\* centre (x + w / 2, y + h / 2) of the overlay at the next draw is the one
\* before the event; a shrink is refused when the dimension is at the floor
\* of 6, and a grow is refused when it would leave the bounds.
C28_ResizeKeepsCentre ==
    [][/\ (EvShiftLeft(0) /\ crop_enabled) =>
              /\ \/ crop' = [crop EXCEPT !.w = RSub(crop.w, CROP_STEP),
                                         !.x = RAdd(crop.x, HALF_STEP)]
                 \/ crop' = crop
              /\ crop.w = R6 => crop' = crop
       /\ (EvShiftDown(0) /\ crop_enabled) =>
              /\ \/ crop' = [crop EXCEPT !.h = RSub(crop.h, CROP_STEP),
                                         !.y = RAdd(crop.y, HALF_STEP)]
                 \/ crop' = crop
              /\ crop.h = R6 => crop' = crop
       /\ (EvShiftRight(0) /\ crop_enabled) =>
              LET grown == [crop EXCEPT !.w = RAdd(crop.w, CROP_STEP),
                                        !.x = RSub(crop.x, HALF_STEP)]
              IN  /\ crop' = grown \/ crop' = crop
                  /\ ~WithinImage(grown) => crop' = crop
       /\ (EvShiftUp(0) /\ crop_enabled) =>
              LET grown == [crop EXCEPT !.h = RAdd(crop.h, CROP_STEP),
                                        !.y = RSub(crop.y, HALF_STEP)]
              IN  /\ crop' = grown \/ crop' = crop
                  /\ ~WithinImage(grown) => crop' = crop
       /\ (/\ crop_enabled
           /\ \/ EvShiftLeft(0) \/ EvShiftRight(0)
              \/ EvShiftDown(0) \/ EvShiftUp(0)) =>
              Centre(Sanitize(crop')) = Centre(crop)]_vars

(***************************************************************************)
(* The uniform resize of an overlay moved to the right: one image, Tab,    *)
(* any number of right arrows, and '-', '+' or '=' MaxEdits times in a     *)
(* run.                                                                    *)
(***************************************************************************)
InitUniform == InitCropX

NextUniform ==
    \/ LoopTop
    \/ \E e \in {"TAB", "SHIFT_TAB"} : EvTab(e)
    \/ EvRight(0)
    \/ EvMinus(MaxEdits)
    \/ \E e \in {"+", "="} : EvPlus(e, MaxEdits)

SpecUniform == InitUniform /\ [][NextUniform]_vars

\* w >= 6 and h >= 6
AboveFloor(c) == RLe(R6, c.w) /\ RLe(R6, c.h)

\* C29: a uniform resize ('-', '+' or '=') in crop editing changes w and h of
\* the overlay together by the same step or changes neither: when the
\* resized rectangle would not stay within the bounds, or above the floor,
\* on both axes, the overlay is left as it is, and the overlay at the next
\* draw has not been resized on one axis more than on the other.
C29_UniformResizeBothOrNeither ==
    [][/\ (EvMinus(MaxEdits) /\ crop_enabled) =>
              LET shrunk == Crop(RAdd(crop.x, HALF_STEP),
                                 RAdd(crop.y, HALF_STEP),
                                 RSub(crop.w, CROP_STEP),
                                 RSub(crop.h, CROP_STEP))
              IN  /\ crop' = shrunk \/ crop' = crop
                  /\ ~AboveFloor(shrunk) => crop' = crop
       /\ (\E e \in {"+", "="} : EvPlus(e, MaxEdits) /\ crop_enabled) =>
              LET grown == Crop(RSub(crop.x, HALF_STEP),
                                RSub(crop.y, HALF_STEP),
                                RAdd(crop.w, CROP_STEP),
                                RAdd(crop.h, CROP_STEP))
              IN  /\ crop' = grown \/ crop' = crop
                  /\ ~WithinImage(grown) => crop' = crop
       /\ (/\ crop_enabled
           /\ \/ EvMinus(MaxEdits)
              \/ \E e \in {"+", "="} : EvPlus(e, MaxEdits)) =>
              RSub(Sanitize(crop').w, crop.w) =
                  RSub(Sanitize(crop').h, crop.h)]_vars

(***************************************************************************)
(* The rectangles of a draw pass, under SpecCropX.                         *)
(***************************************************************************)
\* 0 <= x <= 98, x + w <= 99.9999, 0 <= y <= 98 and y + h <= 99.9999
Sanitized(c) ==
    /\ RLe(R0, c.x) /\ RLe(c.x, R98)
    /\ RLe(RAdd(c.x, c.w), R99_9999)
    /\ RLe(R0, c.y) /\ RLe(c.y, R98)
    /\ RLe(RAdd(c.y, c.h), R99_9999)

\* C30 (as stated): at every draw pass, in crop editing or not, the overlay
\* and the persisted crop of every slot have 0 <= x <= 98,
\* x + w <= 99.9999, 0 <= y <= 98 and y + h <= 99.9999.
C30_AllRectanglesSanitized ==
    pc \in {"poll", "draw2", "capture"} =>
        /\ Sanitized(crop)
        /\ \A i \in Slots : Sanitized(image[i].crop)

\* C30 (amended): at every draw pass, in crop editing or not, the overlay
\* has 0 <= x <= 98, x + w <= 99.9999, 0 <= y <= 98 and y + h <= 99.9999;
\* the persisted crops are drawn as they are, and the default one is
\* (0, 0, 100, 100).
C30_OverlaySanitized ==
    pc \in {"poll", "draw2", "capture"} =>
        /\ Sanitized(crop)
        /\ \A i \in Slots :
               ~IsCropped(i) =>
                   /\ image[i].crop = Crop(R0, R0, R100, R100)
                   /\ ~Sanitized(image[i].crop)

\* a frame drawn after a session that pushed the overlay against the right
\* edge: x was held at 98 and w cut to 1.9999
C30_Witness ==
    /\ pc = "poll"
    /\ ~crop_enabled
    /\ crop = Crop(R98, Num(25), <<19999, 10000>>, Num(50))

(***************************************************************************)
(* Shrinking the overlay and committing it: one 64 x 48 image with or      *)
(* without a crop persisted by option -k, Tab, any number of shift-left    *)
(* arrows, and Enter.                                                      *)
(***************************************************************************)
InitShrink == InitGrow

NextShrink ==
    \/ LoopTop
    \/ \E e \in {"TAB", "SHIFT_TAB"} : EvTab(e)
    \/ EvShiftLeft(0)
    \/ EvEnter

SpecShrink == InitShrink /\ [][NextShrink]_vars

\* C31: a crop of size zero or less never reaches the pixel extraction:
\* whenever draw_images creates a texture for a loaded image, after any
\* sequence of commits on the slot, round(width * crop.w / 100) >= 1 and
\* round(height * crop.h / 100) >= 1.
C31_TextureSizePositive ==
    [][\A i \in Slots :
           (cached_texture[i] = NULL /\ cached_texture'[i] # NULL) =>
               LET size == TextureSize(image[i].width, image[i].height,
                                       image[i].crop)
               IN  size[1] >= 1 /\ size[2] >= 1]_vars

(***************************************************************************)
(* The used area of the window, under Spec.                                *)
(***************************************************************************)
\* C32: the layout divides with integer division and never rounds up: the
\* used width is (window width div cols) * cols and the used height is
\* (window height div rows) * rows, so each is at most the window's and
\* falls short of it by less than cols (rows), and the rectangle written to
\* the output file is exactly the used area.
C32_UsedAreaRoundsDown ==
    pc \in {"poll", "draw2", "capture"} =>
        /\ panes.win_width_used = (win[1] \div cols) * cols
        /\ panes.win_height_used = (win[2] \div panes.rows) * panes.rows
        /\ panes.win_width_used <= win[1]
        /\ win[1] - panes.win_width_used < cols
        /\ panes.win_height_used <= win[2]
        /\ win[2] - panes.win_height_used < panes.rows
        /\ pc = "capture" =>
               PrintScreenRect(panes) =
                   Rect(0, 0, (win[1] \div cols) * cols,
                        (win[2] \div panes.rows) * panes.rows)

\* the 803 x 601 window captured with 3 columns and 2 rows: 801 x 600
C32_Witness ==
    /\ pc = "capture"
    /\ win = <<803, 601>>
    /\ cols = 3
    /\ panes.rows = 2
    /\ PrintScreenRect(panes) = Rect(0, 0, 801, 600)

(***************************************************************************)
(* More properties of the overlay edits, under SpecCropAxis.               *)
(***************************************************************************)
\* C33: an arrow event changes only the position of the overlay: after an
\* Up, Down, Left or Right event in crop editing and the sanitization that
\* precedes the next draw, w and h of the overlay are those before the
\* event, also when the overlay touches the right or the bottom edge.
C33_ArrowKeepsSize ==
    [][(/\ crop_enabled
        /\ EvLeft(0) \/ EvRight(0) \/ EvUp(0) \/ EvDown(0)) =>
          /\ Sanitize(crop').w = crop.w
          /\ Sanitize(crop').h = crop.h]_vars

(***************************************************************************)
(* The overlay a commit works with, under SpecGrow.                        *)
(***************************************************************************)
\* C34: the overlay a commit sees is never the full pane: the sanitization
\* of the frame runs after every handled event and before the next event is
\* read, so w <= 99.9999 and h <= 99.9999 of the overlay whenever Enter is
\* handled, and every commit makes w and h of the persisted crop of the
\* target slot strictly smaller; no sequence of overlay edits makes a
\* commit a no-op.
C34_CommitStrictlyShrinks ==
    [][(EvEnter /\ crop_enabled) =>
          /\ RLe(crop.w, R99_9999)
          /\ RLe(crop.h, R99_9999)
          /\ RLt(image'[crop_idx].crop.w, image[crop_idx].crop.w)
          /\ RLt(image'[crop_idx].crop.h, image[crop_idx].crop.h)
          /\ image' # image]_vars

\* the overlay grown as far as it goes, committed on the default crop
C34_Witness ==
    /\ pc = "top"
    /\ ncommit = 1
    /\ ~crop_enabled
    /\ edits = 100
    /\ image[0].crop = Crop(R0, R0, R99_9999, R99_9999)

(***************************************************************************)
(* The layout of the largest image counts: MAX_IMAGE - CapacityRange to    *)
(* MAX_IMAGE images, both layouts, every -c option, 'c' and 'C'.           *)
(***************************************************************************)
CapacityRange == 10

InitCapacity ==
    \E lay \in {LAYOUT_EQUAL_SIZE, LAYOUT_FIRST_IMAGE_DOUBLE_SIZE},
       n \in (MAX_IMAGE - CapacityRange) .. MAX_IMAGE,
       cols_arg \in 0 .. 10 :
        /\ ColsArgOk(lay, cols_arg)
        /\ InitWith(lay, n, cols_arg, <<0, 0>>, "GREEN", FALSE,
                    [i \in 0 .. (n - 1) |->
                        [width |-> IMAGE_WIDTH, height |-> IMAGE_HEIGHT,
                         crop |-> crop_uncropped]])

NextCapacity ==
    \/ LoopTop
    \/ \E e \in {"c", "C"} : EvCols(e)

SpecCapacity == InitCapacity /\ [][NextCapacity]_vars

\* C35: for every image count from 1 to MAX_IMAGE and every column count
\* within [min_cols, max_cols], in both layouts, the number of panes that
\* layout_get_panes writes is at most MAX_IMAGE, the capacity of pane,
\* pane_full, image and cached_texture, which draw_images indexes up to
\* max_pane.
C35_PanesFitCapacity ==
    /\ max_image \in 1 .. MAX_IMAGE
    /\ cols \in MinCols(layout) .. MaxCols(layout)
    /\ panes.max_pane <= MAX_IMAGE

(***************************************************************************)
(* The pixels draw_images extracts: one image of 1 .. MaxImageDim pixels   *)
(* each way, with or without a crop persisted by option -k, Tab and Enter. *)
(***************************************************************************)
MaxImageDim == 8

\* the -k options tried (crop_uncropped: none)
KOptions ==
    {crop_uncropped,
     Crop(Num(50), R0, Num(50), R100),
     Crop(R0, Num(50), R100, Num(50)),
     Crop(Num(10), Num(20), Num(5), Num(60)),
     Crop(Num(25), Num(25), Num(50), Num(50))}

InitPixels ==
    \E width \in 1 .. MaxImageDim, height \in 1 .. MaxImageDim, k \in KOptions :
        /\ KOptionOk(k)
        /\ InitWith(LAYOUT_EQUAL_SIZE, 1, 0, <<0, 0>>, "GREEN", FALSE,
                    [i \in {0} |->
                        [width |-> width, height |-> height, crop |-> k]])

NextPixels ==
    \/ LoopTop
    \/ \E e \in {"TAB", "SHIFT_TAB"} : EvTab(e)
    \/ EvEnter

SpecPixels == InitPixels /\ [][NextPixels]_vars

\* C36: whenever draw_images extracts the pixels of a loaded image, the
\* rectangle it selects lies inside the image buffer:
\* round(width * x / 100) + round(width * w / 100) <= width and
\* round(height * y / 100) + round(height * h / 100) <= height, for every
\* image size and every persisted crop with x >= 0, y >= 0, x + w <= 100
\* and y + h <= 100 (rounding to nearest, ties to even).
C36_ExtractionInsideImage ==
    [][\A i \in Slots :
           (/\ cached_texture[i] = NULL
            /\ cached_texture'[i] # NULL
            /\ WithinImage(image[i].crop)) =>
               LET origin == TextureOrigin(image[i].width, image[i].height,
                                           image[i].crop)
                   size == TextureSize(image[i].width, image[i].height,
                                       image[i].crop)
               IN  /\ origin[1] + size[1] <= image[i].width
                   /\ origin[2] + size[2] <= image[i].height]_vars

(***************************************************************************)
(* The frame that is written to the output file, under Spec.               *)
(***************************************************************************)
\* C37: the frame written to the output file never contains the outline of
\* the crop overlay: every draw pass that a capture follows, after 'w' in
\* any state or in batch mode, runs with crop editing off.
C37_CapturedFrameHasNoOverlay ==
    /\ (print_screen_request \/ batch_mode) => ~crop_enabled
    /\ pc \in {"draw2", "capture"} =>
           /\ ~crop_enabled
           /\ CropRectDrawn(panes) = {}

\* the capture after a 'w' that found the overlay of a session on slot 1
C37_Witness ==
    /\ pc = "capture"
    /\ ~batch_mode
    /\ print_screen_request
    /\ ~crop_enabled
    /\ crop_idx = 1
    /\ crop = Crop(Num(25), Num(25), Num(50), Num(50))
    /\ ndraw = 2

(***************************************************************************)
(* The range of the crop target, under SpecSelect.                         *)
(***************************************************************************)
\* C38: crop_idx is within [0, max_image) in every reachable state, after
\* any sequence of Tab and Shift-Tab events in any mode, so the slot whose
\* crop and cache entry Enter and 'r' write is one of the slots of the input
\* images.
C38_CropIdxInRange ==
    /\ crop_idx \in 0 .. (max_image - 1)
    /\ crop_idx \in DOMAIN image
    /\ crop_idx \in DOMAIN cached_texture

\* four images: Enter has just committed the overlay on the last slot
C38_Witness ==
    /\ pc = "top"
    /\ max_image = 4
    /\ crop_idx = 3
    /\ ~crop_enabled
    /\ ncommit = 1
    /\ IsCropped(3)
    /\ cached_texture[3] = NULL

(***************************************************************************)
(* The tiling of the used area by the panes, under SpecLayout.             *)
(***************************************************************************)
\* the rectangles a and b have a point in common
Overlap(a, b) ==
    /\ a.x < b.x + b.w /\ b.x < a.x + a.w
    /\ a.y < b.y + b.h /\ b.y < a.y + a.h

\* the rectangle a lies inside the rectangle b
Inside(a, b) ==
    /\ b.x <= a.x /\ a.x + a.w <= b.x + b.w
    /\ b.y <= a.y /\ a.y + a.h <= b.y + b.h

\* the cells of the rows x cols grid of the last layout
GridCells == (0 .. (panes.rows - 1)) \X (0 .. (cols - 1))

\* C39: for both layouts and every valid image count, cols and window size,
\* the outer pane rectangles of layout_get_panes do not overlap pairwise
\* and together cover exactly the used area [0, used width) x
\* [0, used height); in the first image double size layout the double pane
\* covers precisely the four skipped cells.
C39_PanesTileUsedArea ==
    (pc = "poll" /\ panes.image_width > 0 /\ panes.image_height > 0) =>
        LET used == Rect(0, 0, panes.win_width_used, panes.win_height_used)
            P == panes.pane_full
        IN  /\ \A i \in 1 .. Len(P) : Inside(P[i], used)
            /\ \A i, j \in 1 .. Len(P) : i # j => ~Overlap(P[i], P[j])
            /\ \A rc \in GridCells :
                   \E i \in 1 .. Len(P) : Inside(CellRect(rc), P[i])
            /\ Inside(used, Rect(0, 0, panes.image_width * cols,
                                 panes.image_height * panes.rows))
            /\ layout = LAYOUT_FIRST_IMAGE_DOUBLE_SIZE =>
                   {rc \in GridCells : Inside(CellRect(rc), P[1])} =
                       {<<0, 0>>, <<0, 1>>, <<1, 0>>, <<1, 1>>}

\* 7 images in 4 columns in the 1001 x 37 window: 9 panes tile 1000 x 36
C39_Witness ==
    /\ pc = "poll"
    /\ layout = LAYOUT_FIRST_IMAGE_DOUBLE_SIZE
    /\ max_image = 7
    /\ cols = 4
    /\ win = <<1001, 37>>
    /\ panes.max_pane = 9
    /\ panes.win_width_used = 1000
    /\ panes.win_height_used = 36

\* C40: the layout is idempotent on its own used size: computed again with
\* the used width and height as the window size (same image count, cols and
\* layout) it gives the same pane rectangles and the same used width and
\* height; the -o WxH value of the emitted batch command relies on this.
C40_LayoutIdempotentOnUsedSize ==
    pc = "poll" =>
        LET again == LayoutGetPanes(layout, max_image, panes.win_width_used,
                                    panes.win_height_used, cols)
        IN  /\ again.pane_full = panes.pane_full
            /\ again.win_width_used = panes.win_width_used
            /\ again.win_height_used = panes.win_height_used
            /\ again = panes
            /\ InitWin(layout, max_image, cols,
                       <<panes.win_width_used, panes.win_height_used>>) =
                   <<panes.win_width_used, panes.win_height_used>>

\* 12 images in 5 columns in the 1001 x 37 window: the used size 1000 x 36
\* is smaller than the window
C40_Witness ==
    /\ pc = "poll"
    /\ layout = LAYOUT_EQUAL_SIZE
    /\ max_image = 12
    /\ cols = 5
    /\ win = <<1001, 37>>
    /\ panes.rows = 3
    /\ panes.win_width_used = 1000
    /\ panes.win_height_used = 36

=============================================================================
